---- MODULE Spec2Model ----
(***************************************************************************)
(* Event-stream capture and replay of the web QA console:                  *)
(*   - the event normaliser            (src/lib/db/event-mapper.ts)        *)
(*   - the find-or-create of the Run   (src/app/api/chat/route.ts)         *)
(*   - the two logging transforms      (route.ts, stream-logger.ts)        *)
(*   - the status PATCH                (src/app/api/executions/route.ts)   *)
(*   - the transcript reconstruction   (src/unnamed/part_010)              *)
(* The store is PostgreSQL with the two unique indexes of                  *)
(* src/lib/db/schema/test-executions.ts.                                   *)
(***************************************************************************)
EXTENDS Integers, Sequences, FiniteSets, TLC

(***************************************************************************)
(* JSON values.  A value is a record tagged by its JavaScript type; an     *)
(* object carries its fields in o, a string its text in s.                 *)
(***************************************************************************)
Undefined == [ty |-> "undefined"]
JNull == [ty |-> "null"]
JArray == [ty |-> "array"]
JNum(n) == [ty |-> "number", n |-> n]
JBool(b) == [ty |-> "boolean", b |-> b]
S(x) == [ty |-> "string", s |-> x]
Obj(fields) == [ty |-> "object", o |-> fields]

Get(v, f) == IF f \in DOMAIN v.o THEN v.o[f] ELSE Undefined
IsString(v) == v.ty = "string"
\* JavaScript truthiness of a JSON value
Truthy(v) ==
  CASE v.ty = "undefined" -> FALSE
    [] v.ty = "null" -> FALSE
    [] v.ty = "string" -> v.s # ""
    [] v.ty = "number" -> v.n # 0
    [] v.ty = "boolean" -> v.b
    [] OTHER -> TRUE

StartsWith(str, pre) ==
  Len(str) >= Len(pre) /\ SubSeq(str, 1, Len(pre)) = pre
EndsWith(str, suf) ==
  Len(str) >= Len(suf) /\ SubSeq(str, Len(str) - Len(suf) + 1, Len(str)) = suf
Includes(str, sub) ==
  \E i \in 1..(Len(str) - Len(sub) + 1) : SubSeq(str, i, i + Len(sub) - 1) = sub

(***************************************************************************)
(* Event normaliser                                                        *)
(***************************************************************************)
\* (the error rule tried before the prefix rules)
mapEventFamilyErrorFirst(eventType) ==
  IF eventType = "start" \/ eventType = "finish" THEN "lifecycle"
  ELSE IF eventType = "error" \/ Includes(eventType, "error") THEN "error"
  ELSE IF StartsWith(eventType, "text-") THEN "text"
  ELSE IF StartsWith(eventType, "reasoning-") THEN "reasoning"
  ELSE IF StartsWith(eventType, "tool-input-") THEN "tool-input"
  ELSE IF StartsWith(eventType, "tool-output-") \/ eventType = "tool-output-available"
       THEN "tool-output"
  ELSE "data"

mapEventFamily(eventType) ==
  IF eventType = "start" \/ eventType = "finish" THEN "lifecycle"
  ELSE IF StartsWith(eventType, "text-") THEN "text"
  ELSE IF StartsWith(eventType, "reasoning-") THEN "reasoning"
  ELSE IF StartsWith(eventType, "tool-input-") THEN "tool-input"
  ELSE IF StartsWith(eventType, "tool-output-") \/ eventType = "tool-output-available"
       THEN "tool-output"
  ELSE IF StartsWith(eventType, "data-") THEN "data"
  ELSE IF eventType = "error" \/ Includes(eventType, "error") THEN "error"
  ELSE "data"

isRecord(value) == value.ty = "object"

\* the stream id is a string or null
NullId == [ty |-> "null"]
\* (the first of the three fields the event has, whatever its type)
extractStreamIdPresent(event) ==
  IF ~isRecord(event) THEN NullId
  ELSE IF Get(event, "id") # Undefined THEN Get(event, "id")
  ELSE IF Get(event, "toolCallId") # Undefined THEN Get(event, "toolCallId")
  ELSE IF Get(event, "messageId") # Undefined THEN Get(event, "messageId")
  ELSE NullId

extractStreamId(event) ==
  IF ~isRecord(event) THEN NullId
  ELSE IF IsString(Get(event, "id")) THEN Get(event, "id")
  ELSE IF IsString(Get(event, "toolCallId")) THEN Get(event, "toolCallId")
  ELSE IF IsString(Get(event, "messageId")) THEN Get(event, "messageId")
  ELSE NullId

\* String.prototype.toLowerCase, letter by letter
lowerChar(c) ==
  CASE c = "A" -> "a" [] c = "B" -> "b" [] c = "C" -> "c" [] c = "D" -> "d"
    [] c = "E" -> "e" [] c = "F" -> "f" [] c = "G" -> "g" [] c = "H" -> "h"
    [] c = "I" -> "i" [] c = "J" -> "j" [] c = "K" -> "k" [] c = "L" -> "l"
    [] c = "M" -> "m" [] c = "N" -> "n" [] c = "O" -> "o" [] c = "P" -> "p"
    [] c = "Q" -> "q" [] c = "R" -> "r" [] c = "S" -> "s" [] c = "T" -> "t"
    [] c = "U" -> "u" [] c = "V" -> "v" [] c = "W" -> "w" [] c = "X" -> "x"
    [] c = "Y" -> "y" [] c = "Z" -> "z" [] OTHER -> c
RECURSIVE toLowerCase(_)
toLowerCase(str) ==
  IF str = "" THEN ""
  ELSE lowerChar(SubSeq(str, 1, 1)) \o toLowerCase(SubSeq(str, 2, Len(str)))

isValidRole(role) == role \in {"system", "user", "assistant", "tool"}

\* (the explicit role compared as it is spelled)
inferRoleExact(event) ==
  IF ~isRecord(event) THEN "assistant"
  ELSE IF IsString(Get(event, "role")) /\ isValidRole(Get(event, "role").s)
       THEN Get(event, "role").s
  ELSE LET eventType == IF IsString(Get(event, "type")) THEN Get(event, "type").s ELSE ""
       IN IF StartsWith(eventType, "tool-") THEN "tool" ELSE "assistant"

inferRole(event) ==
  IF ~isRecord(event) THEN "assistant"
  ELSE IF IsString(Get(event, "role")) /\ isValidRole(toLowerCase(Get(event, "role").s))
       THEN toLowerCase(Get(event, "role").s)
  ELSE LET eventType == IF IsString(Get(event, "type")) THEN Get(event, "type").s ELSE ""
       IN IF StartsWith(eventType, "tool-") THEN "tool" ELSE "assistant"

\* (an object without a string type is turned away)
normalizeEventTyped(event) ==
  IF ~isRecord(event) \/ ~IsString(Get(event, "type")) THEN <<>>
  ELSE << [eventType |-> Get(event, "type").s,
           eventFamily |-> mapEventFamily(Get(event, "type").s),
           role |-> inferRole(event),
           streamId |-> extractStreamId(event),
           payload |-> event] >>

\* null is the empty sequence, a record the one-element sequence
normalizeEvent(event) ==
  IF ~isRecord(event) THEN <<>>
  ELSE LET eventType == IF IsString(Get(event, "type")) THEN Get(event, "type").s
                        ELSE "unknown"
       IN << [eventType |-> eventType,
              eventFamily |-> mapEventFamily(eventType),
              role |-> inferRole(event),
              streamId |-> extractStreamId(event),
              payload |-> event] >>

(***************************************************************************)
(* The agent stream.  A chunk is the list of lines text.split("\n") gives  *)
(* for it; a line is its text.  JSON.parse is a table over the payloads    *)
(* the agent of the model emits; any other text is a SyntaxError (<<>>).   *)
(***************************************************************************)
TextDelta == "{\"type\":\"text-delta\",\"id\":\"s1\",\"delta\":\"hi\"}"
ErrorEv == "{\"type\":\"error\",\"errorText\":\"boom\"}"
FinishEv == "{\"type\":\"finish\"}"

JSONparse(str) ==
  CASE str = TextDelta ->
         << Obj([type |-> S("text-delta"), id |-> S("s1"), delta |-> S("hi")]) >>
    [] str = ErrorEv -> << Obj([type |-> S("error"), errorText |-> S("boom")]) >>
    [] str = FinishEv -> << Obj([type |-> S("finish")]) >>
    [] str = "null" -> << JNull >>
    [] str = "[1]" -> << JArray >>
    [] str = "0" -> << JNum(0) >>
    [] OTHER -> << >>

\* the lines of two chunks when the bytes are put one after the other: the
\* last line of the first continues in the first line of the second
JoinChunks(a, b) ==
  IF a = <<>> THEN b
  ELSE IF b = <<>> THEN a
  ELSE SubSeq(a, 1, Len(a) - 1) \o << a[Len(a)] \o b[1] >> \o SubSeq(b, 2, Len(b))

RECURSIVE JoinAll(_)
JoinAll(chunks) ==
  IF chunks = <<>> THEN <<>>
  ELSE JoinChunks(chunks[1], JoinAll(Tail(chunks)))

\* the chunks the agent of the model produces
Chunks ==
  { << "data: " \o TextDelta, "data: {oops", "data: " \o ErrorEv, "" >>,
    << "data: " \o FinishEv, "", "data: [DONE]", "", "" >>,
    << "ish\"}", ": ping", "data: null", "data: [1]", "data: 0",
       "data: {\"type\":\"fin" >> }

(***************************************************************************)
(* Bounds of the model                                                     *)
(***************************************************************************)
MaxOps == 4
MaxChunks == 2
MaxPatches == 1

Procs == {1, 2}
Browsers == {"b1", "b2"}

(***************************************************************************)
(* State.                                                                  *)
(*  interactions        the interactions table; the interactionId of a row *)
(*                      is its index                                       *)
(*  interactionEvents   the interaction_events table (by, pos: which       *)
(*                      stream observed the event, and where in it)        *)
(*  req                 one record per request / logging stream: position, *)
(*                      the locals of POST and the closure variables of    *)
(*                      its logging transform, the chunks read and written *)
(*                      (found: which of the three console.log lines of    *)
(*                      the find-or-create was printed)                    *)
(*  pending             the store operations dispatched and not awaited    *)
(*  clock               the last time new Date() returned                  *)
(*  ops                 store operations dispatched so far by the streams  *)
(*  patches             status PATCH requests served so far                *)
(*  outOfBand           Runs whose status a PATCH or a cancellation set to *)
(*                      a non-running value                                *)
(* and of one call of convertEventsToMessages:                             *)
(*  events              the array it was given                             *)
(*  cursor              the position of its for loop in events             *)
(*  currentMessage      null (<<>>) or the message being built (<< m >>);  *)
(*                      a tool part of it is the toolCallMap entry itself  *)
(*                      (one object, two references), held as its key      *)
(*  streamAccumulators  Map: stream id -> text being accumulated           *)
(*  toolCallMap         Map: tool call id -> tool part                     *)
(*  messages            the messages pushed so far                         *)
(*  returned            the call has returned messages                     *)
(* and of one call of normalizeEvent:                                      *)
(*  rawEvent            the value it was given                             *)
(*  canonical           <<>> before the return, << its return value >>     *)
(*                      after                                              *)
(***************************************************************************)
VARIABLES interactions, interactionEvents, req, pending, clock, ops, patches, outOfBand,
          events, cursor, currentMessage, streamAccumulators, toolCallMap, messages,
          returned, rawEvent, canonical

storeVars == << interactions, interactionEvents, req, pending, clock, ops, patches, outOfBand >>
convertVars == << events, cursor, currentMessage, streamAccumulators, toolCallMap,
                  messages, returned >>
normalizeVars == << rawEvent, canonical >>
vars == << storeVars, convertVars, normalizeVars >>

NoInteraction == 0

InitReq ==
  [pc |-> "idle", browserId |-> "", interaction |-> NoInteraction, found |-> "",
   logger |-> "", caught |-> "",
   seq |-> 0, hasError |-> FALSE, isFinished |-> FALSE, updates |-> 0,
   input |-> <<>>, output |-> <<>>, response |-> 0, error |-> ""]

EmptyMap == [k \in {} |-> Undefined]

StoreInit ==
  /\ interactions = <<>>
  /\ interactionEvents = {}
  /\ req = [p \in Procs |-> InitReq]
  /\ pending = {}
  /\ clock = 0
  /\ ops = 0
  /\ patches = 0
  /\ outOfBand = {}

\* the locals of convertEventsToMessages at its first statement
ConvertInit ==
  /\ cursor = 1
  /\ currentMessage = <<>>
  /\ streamAccumulators = EmptyMap
  /\ toolCallMap = EmptyMap
  /\ messages = <<>>

\* normalizeEvent is not being called
NormalizeIdle ==
  /\ rawEvent = JNull
  /\ canonical = << <<>> >>

\* no transcript is being reconstructed
Init ==
  /\ StoreInit
  /\ ConvertInit
  /\ events = <<>>
  /\ returned = TRUE
  /\ NormalizeIdle

NoConvert == UNCHANGED convertVars
NoNormalize == UNCHANGED normalizeVars

\* new Date(): time has passed since the last reading
Now == clock + 1

(***************************************************************************)
(* The store's unique indexes                                              *)
(***************************************************************************)
\* interactions_running_browser_idx: (metadata->>'browserId') WHERE status =
\* 'running'.  TRUE when the table rows would hold two running rows of one key
\* (the index left out of the schema)
noRunningBrowserIdx(rows) == FALSE

uniqueRunningBrowserIdxViolated(rows) ==
  \E i, j \in 1..Len(rows) :
    /\ i # j
    /\ rows[i].status = "running" /\ rows[j].status = "running"
    /\ rows[i].browserId = rows[j].browserId

\* (the index left out of the schema)
noInteractionSeqIdx(rows, row) == FALSE

\* interaction_events_interaction_seq_idx: (interaction_id, seq)
interactionSeqIdxViolated(rows, row) ==
  \E r \in rows : r.interactionId = row.interactionId /\ r.seq = row.seq

\* select ... where metadata->>'browserId' = browserId and status = 'running'
RunningFor(browserId) ==
  {i \in 1..Len(interactions) :
     interactions[i].browserId = browserId /\ interactions[i].status = "running"}

(***************************************************************************)
(* POST /api/chat: find or create the running interaction                  *)
(***************************************************************************)
Reply(p, code, msg) ==
  req' = [req EXCEPT ![p].pc = "failed", ![p].response = code, ![p].error = msg]

\* the request body is read; a missing browserId is answered 400
Post(p, browserId) ==
  /\ req[p].pc = "idle"
  \* requests and browser sessions are interchangeable: they are taken in order
  /\ \A q \in Procs : q < p => req[q].pc # "idle"
  /\ browserId = "b2" => \E q \in Procs : req[q].browserId = "b1"
  /\ IF browserId = ""
       THEN Reply(p, 400, "Browser ID is required")
       ELSE req' = [req EXCEPT ![p].pc = "select", ![p].browserId = browserId]
  /\ UNCHANGED << interactions, interactionEvents, pending, clock, ops, patches, outOfBand >>

\* (the lookup result passed over: the insert is always tried)
SelectRunningInserts(p) ==
  /\ req[p].pc = "select"
  /\ req' = [req EXCEPT ![p].pc = "insert"]
  /\ UNCHANGED << interactions, interactionEvents, pending, clock, ops, patches, outOfBand >>

\* the first lookup of a running interaction of the browser session
SelectRunning(p) ==
  /\ req[p].pc = "select"
  /\ \/ /\ RunningFor(req[p].browserId) = {}
        /\ req' = [req EXCEPT ![p].pc = "insert"]
     \/ \E i \in RunningFor(req[p].browserId) :
          req' = [req EXCEPT ![p].pc = "agent", ![p].interaction = i,
                             ![p].found = "reused"]
  /\ UNCHANGED << interactions, interactionEvents, pending, clock, ops, patches, outOfBand >>

NewRun(browserId) == [browserId |-> browserId, status |-> "running", finishedAt |-> <<>>]

\* the message of the store's error when the insert breaks the partial
\* unique index, and the messages of its other errors: the connection is
\* lost; the testId of the request body is not a uuid (the message quotes
\* the value)
UniqueViolation ==
  "duplicate key value violates unique constraint \"interactions_running_browser_idx\""
StoreErrors ==
  { "write CONNECTION_CLOSED",
    "invalid input syntax for type uuid: \"unique\"" }

\* the catch of the insert: an error whose message includes "unique" goes to
\* the second lookup, any other error is thrown again and answered 500
catchInsert(p, message) ==
  IF Includes(message, "unique")
    THEN req' = [req EXCEPT ![p].pc = "fallback", ![p].caught = message]
    ELSE req' = [req EXCEPT ![p].pc = "failed", ![p].caught = message,
                            ![p].response = 500, ![p].error = message]

\* the insert of a new running interaction, checked by the partial unique index
InsertInteraction(p) ==
  /\ req[p].pc = "insert"
  /\ LET rows == Append(interactions, NewRun(req[p].browserId))
     IN IF uniqueRunningBrowserIdxViolated(rows)
          THEN /\ catchInsert(p, UniqueViolation)
               /\ UNCHANGED interactions
          ELSE /\ interactions' = rows
               /\ req' = [req EXCEPT ![p].pc = "agent", ![p].interaction = Len(rows),
                                  ![p].found = "created"]
  /\ UNCHANGED << interactionEvents, pending, clock, ops, patches, outOfBand >>

\* the insert fails with an error that is not the unique violation
InsertInteractionFails(p, message) ==
  /\ req[p].pc = "insert"
  /\ catchInsert(p, message)
  /\ UNCHANGED << interactions, interactionEvents, pending, clock, ops, patches, outOfBand >>

\* (the unique violation rethrown like any other error, without the lookup)
FallbackRethrows(p) ==
  /\ req[p].pc = "fallback"
  /\ Reply(p, 500, "unique violation")
  /\ UNCHANGED << interactions, interactionEvents, pending, clock, ops, patches, outOfBand >>

\* (a second lookup that finds nothing is passed over)
FallbackSwallows(p) ==
  /\ req[p].pc = "fallback"
  /\ \/ /\ RunningFor(req[p].browserId) = {}
        /\ req' = [req EXCEPT ![p].pc = "agent", ![p].found = "raced"]
     \/ \E i \in RunningFor(req[p].browserId) :
          req' = [req EXCEPT ![p].pc = "agent", ![p].interaction = i,
                             ![p].found = "raced"]
  /\ UNCHANGED << interactions, interactionEvents, pending, clock, ops, patches, outOfBand >>

\* after the unique violation: the second lookup
FallbackSelect(p) ==
  /\ req[p].pc = "fallback"
  /\ \/ /\ RunningFor(req[p].browserId) = {}
        /\ Reply(p, 500, "Failed to create or find interaction for browser session")
     \/ \E i \in RunningFor(req[p].browserId) :
          req' = [req EXCEPT ![p].pc = "agent", ![p].interaction = i,
                             ![p].found = "raced"]
  /\ UNCHANGED << interactions, interactionEvents, pending, clock, ops, patches, outOfBand >>

\* (the logging transform attached whether or not the response has a body)
AgentResponseAttaches(p, outcome, logger) ==
  /\ req[p].pc = "agent"
  /\ CASE outcome = "stream" ->
            req' = [req EXCEPT ![p].pc = "streaming", ![p].logger = logger,
                               ![p].response = 200]
       [] outcome = "nobody" ->
            req' = [req EXCEPT ![p].pc = "streaming", ![p].logger = logger,
                               ![p].response = 500,
                               ![p].error = "Response body is null"]
       [] outcome = "throw" ->
            Reply(p, 500, "agent error")
  /\ UNCHANGED << interactions, interactionEvents, pending, clock, ops, patches, outOfBand >>

\* the browser, the agent and its stream response; the logging transform is
\* the inline one of POST ("route") or wrapStreamWithLogging ("wrap")
AgentResponse(p, outcome, logger) ==
  /\ req[p].pc = "agent"
  /\ CASE outcome = "stream" ->
            req' = [req EXCEPT ![p].pc = "streaming", ![p].logger = logger,
                               ![p].response = 200]
       [] outcome = "nobody" ->
            Reply(p, 500, "Response body is null")
       [] outcome = "throw" ->
            Reply(p, 500, "agent error")
  /\ UNCHANGED << interactions, interactionEvents, pending, clock, ops, patches, outOfBand >>

(***************************************************************************)
(* The logging transforms.  The closure variables seq, hasError and        *)
(* isFinished travel in st while the lines of one chunk are processed; ops *)
(* collects the store operations dispatched (never awaited).  ctx is the   *)
(* stream (by), its interaction, the number of the chunk and the time.     *)
(***************************************************************************)
InsertOp(ctx, st, normalized, lineNo) ==
  [op |-> "insert", by |-> ctx.by,
   row |-> [interactionId |-> ctx.interactionId,
            seq |-> st.seq,
            role |-> normalized.role,
            eventFamily |-> normalized.eventFamily,
            eventType |-> normalized.eventType,
            payload |-> normalized.payload,
            streamId |-> normalized.streamId,
            by |-> ctx.by,
            pos |-> << ctx.chunkNo, lineNo >>]]

\* (a status update that always says passed)
UpdateOpPassed(ctx, st) ==
  [op |-> "update", by |-> ctx.by, n |-> st.updates + 1,
   interactionId |-> ctx.interactionId,
   status |-> "passed",
   finishedAt |-> ctx.now]

UpdateOp(ctx, st) ==
  [op |-> "update", by |-> ctx.by, n |-> st.updates + 1,
   interactionId |-> ctx.interactionId,
   status |-> IF st.hasError THEN "error" ELSE "passed",
   finishedAt |-> ctx.now]

\* (the sentinel read as the finish event)
parseSSELineDoneFinishes(line) ==
  IF ~StartsWith(line, "data: ") THEN JNull
  ELSE LET jsonStr == SubSeq(line, 7, Len(line))
       IN IF jsonStr = "[DONE]" THEN Obj([type |-> S("finish")])
          ELSE IF JSONparse(jsonStr) = <<>> THEN JNull
          ELSE JSONparse(jsonStr)[1]

\* stream-logger.ts
parseSSELine(line) ==
  IF ~StartsWith(line, "data: ") THEN JNull
  ELSE LET jsonStr == SubSeq(line, 7, Len(line))
       IN IF jsonStr = "[DONE]" THEN JNull
          ELSE IF JSONparse(jsonStr) = <<>> THEN JNull
          ELSE JSONparse(jsonStr)[1]

\* (the counter stepped before the number is taken)
saveEventStepsFirst(ctx, st, normalized, lineNo) ==
  [st EXCEPT !.seq = @ + 1,
             !.ops = @ \cup {InsertOp(ctx, [st EXCEPT !.seq = @ + 1], normalized, lineNo)}]

saveEvent(ctx, st, normalized, lineNo) ==
  [st EXCEPT !.seq = @ + 1,
             !.ops = @ \cup {InsertOp(ctx, st, normalized, lineNo)}]

\* (a terminal update written again by every call)
finalizeInteractionAgain(ctx, st) ==
  [st EXCEPT !.isFinished = TRUE,
             !.updates = @ + 1,
             !.ops = @ \cup {UpdateOp(ctx, st)}]

finalizeInteraction(ctx, st) ==
  IF st.isFinished THEN st
  ELSE [st EXCEPT !.isFinished = TRUE,
                  !.updates = @ + 1,
                  !.ops = @ \cup {UpdateOp(ctx, st)}]

wrapLine(ctx, st, line, lineNo) ==
  LET event == parseSSELine(line)
  IN IF ~Truthy(event) THEN st
     ELSE IF normalizeEvent(event) = <<>> THEN st
     ELSE LET normalized == normalizeEvent(event)[1]
              saved == saveEvent(ctx, st, normalized, lineNo)
          IN IF normalized.eventFamily = "error"
               THEN [saved EXCEPT !.hasError = TRUE]
             ELSE IF normalized.eventType = "finish"
               THEN finalizeInteraction(ctx, saved)
             ELSE saved

\* route.ts, the transform of POST: no isFinished, every finish event updates
routeUpdate(ctx, st) ==
  [st EXCEPT !.updates = @ + 1,
             !.ops = @ \cup {UpdateOp(ctx, st)}]

routeLine(ctx, st, line, lineNo) ==
  IF ~StartsWith(line, "data: ") THEN st
  ELSE LET jsonStr == SubSeq(line, 7, Len(line))
       IN IF jsonStr = "[DONE]" THEN st
          ELSE IF JSONparse(jsonStr) = <<>> THEN st
          ELSE IF normalizeEvent(JSONparse(jsonStr)[1]) = <<>> THEN st
          ELSE LET normalized == normalizeEvent(JSONparse(jsonStr)[1])[1]
                   saved == saveEvent(ctx, st, normalized, lineNo)
               IN IF normalized.eventType = "finish"
                    THEN routeUpdate(ctx, saved)
                  ELSE IF normalized.eventFamily = "error"
                    THEN [saved EXCEPT !.hasError = TRUE]
                  ELSE saved

\* (the loop left at the first data line that JSON.parse rejects)
RECURSIVE transformLinesAbort(_, _, _, _)
transformLinesAbort(ctx, st, lines, lineNo) ==
  IF lineNo > Len(lines) THEN st
  ELSE IF /\ StartsWith(lines[lineNo], "data: ")
          /\ SubSeq(lines[lineNo], 7, Len(lines[lineNo])) # "[DONE]"
          /\ JSONparse(SubSeq(lines[lineNo], 7, Len(lines[lineNo]))) = <<>>
    THEN st
  ELSE transformLinesAbort(ctx,
                           IF ctx.logger = "wrap"
                             THEN wrapLine(ctx, st, lines[lineNo], lineNo)
                             ELSE routeLine(ctx, st, lines[lineNo], lineNo),
                           lines, lineNo + 1)

RECURSIVE transformLines(_, _, _, _)
transformLines(ctx, st, lines, lineNo) ==
  IF lineNo > Len(lines) THEN st
  ELSE transformLines(ctx,
                      IF ctx.logger = "wrap"
                        THEN wrapLine(ctx, st, lines[lineNo], lineNo)
                        ELSE routeLine(ctx, st, lines[lineNo], lineNo),
                      lines, lineNo + 1)

\* (the chunk forwarded only when every non-empty line of it parses to an event)
enqueueParsed(output, chunk) ==
  IF \A i \in 1..Len(chunk) : chunk[i] = "" \/ Truthy(parseSSELine(chunk[i]))
    THEN Append(output, chunk)
    ELSE output

\* controller.enqueue(chunk)
enqueue(output, chunk) == Append(output, chunk)

Closure(p) ==
  [seq |-> req[p].seq, hasError |-> req[p].hasError,
   isFinished |-> req[p].isFinished, updates |-> req[p].updates, ops |-> {}]

Ctx(p, now) ==
  [by |-> p, logger |-> req[p].logger, interactionId |-> req[p].interaction,
   chunkNo |-> Len(req[p].input) + 1, now |-> now]

Store(p, st) ==
  [req EXCEPT ![p].seq = st.seq, ![p].hasError = st.hasError,
              ![p].isFinished = st.isFinished, ![p].updates = st.updates]

RECURSIVE ChunksReadBy(_)
ChunksReadBy(ps) ==
  IF ps = {} THEN 0
  ELSE LET p == CHOOSE q \in ps : TRUE
       IN Len(req[p].input) + ChunksReadBy(ps \ {p})
\* chunks read so far by all the streams
ChunksRead == ChunksReadBy(Procs)

\* transform(chunk, controller): one chunk of the agent stream
\* (a transform that awaits its inserts before it forwards the chunk)
TransformAwaits(p, chunk) ==
  /\ req[p].pc = "streaming"
  /\ ChunksRead < MaxChunks
  /\ LET st == transformLines(Ctx(p, Now), Closure(p), chunk, 1)
         inserts == {op \in st.ops : op.op = "insert"}
     IN /\ ops + Cardinality(st.ops) <= MaxOps
        /\ req' = [Store(p, st) EXCEPT ![p].input = Append(@, chunk),
                                         ![p].output = enqueue(@, chunk)]
        /\ interactionEvents' =
             interactionEvents \cup
               {op.row : op \in {o \in inserts :
                                   ~interactionSeqIdxViolated(interactionEvents, o.row)}}
        /\ pending' = pending \cup (st.ops \ inserts)
        /\ ops' = ops + Cardinality(st.ops)
        /\ clock' = IF st.updates > req[p].updates THEN Now ELSE clock
  /\ UNCHANGED << interactions, patches, outOfBand >>

Transform(p, chunk) ==
  /\ req[p].pc = "streaming"
  /\ ChunksRead < MaxChunks
  /\ LET st == transformLines(Ctx(p, Now), Closure(p), chunk, 1)
     IN /\ ops + Cardinality(st.ops) <= MaxOps
        /\ req' = [Store(p, st) EXCEPT ![p].input = Append(@, chunk),
                                         ![p].output = enqueue(@, chunk)]
        /\ pending' = pending \cup st.ops
        /\ ops' = ops + Cardinality(st.ops)
        /\ clock' = IF st.updates > req[p].updates THEN Now ELSE clock
  /\ UNCHANGED << interactions, interactionEvents, patches, outOfBand >>

\* (a flush that writes nothing)
FlushNoUpdate(p) ==
  /\ req[p].pc = "streaming"
  /\ req' = [req EXCEPT ![p].pc = "closed"]
  /\ UNCHANGED << interactions, interactionEvents, pending, clock, ops, patches,
                  outOfBand >>

\* flush(): the agent stream has ended
Flush(p) ==
  /\ req[p].pc = "streaming"
  /\ LET st == IF req[p].logger = "wrap"
                 THEN finalizeInteraction(Ctx(p, Now), Closure(p))
                 ELSE routeUpdate(Ctx(p, Now), Closure(p))
     IN /\ ops + Cardinality(st.ops) <= MaxOps
        /\ req' = [Store(p, st) EXCEPT ![p].pc = "closed"]
        /\ pending' = pending \cup st.ops
        /\ ops' = ops + Cardinality(st.ops)
        /\ clock' = IF st.updates > req[p].updates THEN Now ELSE clock
  /\ UNCHANGED << interactions, interactionEvents, patches, outOfBand >>

(***************************************************************************)
(* The store serves the operations that were dispatched, in any order      *)
(***************************************************************************)
\* (an insert that replaces the row holding its (interaction, seq))
CompleteInsertUpsert(op) ==
  /\ op \in pending /\ op.op = "insert"
  /\ pending' = pending \ {op}
  /\ interactionEvents' =
       {r \in interactionEvents :
          ~(r.interactionId = op.row.interactionId /\ r.seq = op.row.seq)}
         \cup {op.row}
  /\ UNCHANGED << interactions, req, clock, ops, patches, outOfBand >>

\* insert into interaction_events; a row that breaks the (interaction, seq)
\* index is rejected and the rejection is caught and logged
CompleteInsert(op) ==
  /\ op \in pending /\ op.op = "insert"
  /\ pending' = pending \ {op}
  /\ interactionEvents' =
       IF interactionSeqIdxViolated(interactionEvents, op.row)
         THEN interactionEvents
         ELSE interactionEvents \cup {op.row}
  /\ UNCHANGED << interactions, req, clock, ops, patches, outOfBand >>

\* (an update without its where clause: every Run is written)
CompleteUpdateEvery(op) ==
  /\ op \in pending /\ op.op = "update"
  /\ pending' = pending \ {op}
  /\ interactions' = [i \in 1..Len(interactions) |->
                        [interactions[i] EXCEPT !.status = op.status,
                                                !.finishedAt = << op.finishedAt >>]]
  /\ outOfBand' = outOfBand \ {op.interactionId}
  /\ UNCHANGED << interactionEvents, req, clock, ops, patches >>

\* update interactions set status, finished_at where interaction_id = id
CompleteUpdate(op) ==
  /\ op \in pending /\ op.op = "update"
  /\ pending' = pending \ {op}
  /\ interactions' = [interactions EXCEPT
                        ![op.interactionId].status = op.status,
                        ![op.interactionId].finishedAt = << op.finishedAt >>]
  /\ outOfBand' = outOfBand \ {op.interactionId}
  /\ UNCHANGED << interactionEvents, req, clock, ops, patches >>

\* (a failed operation that ends the stream it came from)
StoreFailsAborts(op) ==
  /\ op \in pending
  /\ pending' = pending \ {op}
  /\ req' = [req EXCEPT ![op.by].pc = "failed", ![op.by].response = 500,
                        ![op.by].error = "store error"]
  /\ UNCHANGED << interactions, interactionEvents, clock, ops, patches, outOfBand >>

\* the store is unreachable: the operation fails, the failure is caught and
\* logged, nothing is retried
StoreFails(op) ==
  /\ op \in pending
  /\ pending' = pending \ {op}
  /\ UNCHANGED << interactions, interactionEvents, req, clock, ops, patches, outOfBand >>

(***************************************************************************)
(* PATCH /api/executions/[id] with a status                                *)
(***************************************************************************)
validStatuses == {"running", "passed", "failed", "error", "canceled"}

Patch(id, status) ==
  /\ patches < MaxPatches
  /\ patches' = patches + 1
  /\ LET rows == [interactions EXCEPT
                    ![id].status = status,
                    ![id].finishedAt = IF status # "running" THEN << Now >> ELSE @]
     IN IF status \notin validStatuses \/ id \notin 1..Len(interactions)
             \/ uniqueRunningBrowserIdxViolated(rows)
          THEN UNCHANGED << interactions, clock, outOfBand >>
          ELSE /\ interactions' = rows
               /\ clock' = IF status # "running" THEN Now ELSE clock
               /\ outOfBand' = IF status # "running" THEN outOfBand \cup {id}
                               ELSE outOfBand \ {id}
  /\ UNCHANGED << interactionEvents, req, pending, ops >>

(***************************************************************************)
(* POST /api/executions/cancel: the running Run of the browser session is  *)
(* set to canceled; only a row still running is touched                    *)
(***************************************************************************)
Cancel(browserId) ==
  /\ \E i \in RunningFor(browserId) :
       /\ interactions' = [interactions EXCEPT ![i].status = "canceled",
                                                ![i].finishedAt = << Now >>]
       /\ outOfBand' = outOfBand \cup {i}
  /\ clock' = Now
  /\ UNCHANGED << interactionEvents, req, pending, ops, patches >>

(***************************************************************************)
(* Spec: requests racing for the Run of a browser session, the end of      *)
(* their streams, status PATCH requests and cancellations.                 *)
(***************************************************************************)
Next ==
  \/ \E p \in Procs, b \in Browsers \cup {""} : Post(p, b) /\ NoConvert /\ NoNormalize
  \/ \E p \in Procs : SelectRunning(p) /\ NoConvert /\ NoNormalize
  \/ \E p \in Procs : InsertInteraction(p) /\ NoConvert /\ NoNormalize
  \/ \E p \in Procs, message \in StoreErrors : InsertInteractionFails(p, message) /\ NoConvert /\ NoNormalize
  \/ \E p \in Procs : FallbackSelect(p) /\ NoConvert /\ NoNormalize
  \/ \E p \in Procs, outcome \in {"stream", "nobody", "throw"}, logger \in {"route", "wrap"} :
       AgentResponse(p, outcome, logger) /\ NoConvert /\ NoNormalize
  \/ \E p \in Procs : Flush(p) /\ NoConvert /\ NoNormalize
  \/ \E op \in pending : CompleteUpdate(op) /\ NoConvert /\ NoNormalize
  \/ \E op \in pending : StoreFails(op) /\ NoConvert /\ NoNormalize
  \/ \E id \in 1..(Len(interactions) + 1), status \in {"running", "canceled", "bogus"} :
       Patch(id, status) /\ NoConvert /\ NoNormalize
  \/ \E b \in Browsers : Cancel(b) /\ NoConvert /\ NoNormalize

Spec == Init /\ [][Next]_vars

(***************************************************************************)
(* LogSpec: the streams of the requests of one browser session, chunk by   *)
(* chunk, and the store serving their inserts and updates in any order.    *)
(***************************************************************************)
LogNext ==
  \/ \E p \in Procs : Post(p, "b1") /\ NoConvert /\ NoNormalize
  \/ \E p \in Procs : SelectRunning(p) /\ NoConvert /\ NoNormalize
  \/ \E p \in Procs : InsertInteraction(p) /\ NoConvert /\ NoNormalize
  \/ \E p \in Procs : FallbackSelect(p) /\ NoConvert /\ NoNormalize
  \/ \E p \in Procs, logger \in {"route", "wrap"} : AgentResponse(p, "stream", logger) /\ NoConvert /\ NoNormalize
  \/ \E p \in Procs, chunk \in Chunks : Transform(p, chunk) /\ NoConvert /\ NoNormalize
  \/ \E p \in Procs : Flush(p) /\ NoConvert /\ NoNormalize
  \/ \E op \in pending : CompleteInsert(op) /\ NoConvert /\ NoNormalize
  \/ \E op \in pending : CompleteUpdate(op) /\ NoConvert /\ NoNormalize
  \/ \E op \in pending : StoreFails(op) /\ NoConvert /\ NoNormalize

LogSpec == Init /\ [][LogNext]_vars

(***************************************************************************)
(* RunSpec: one request and its stream, with status PATCH requests and     *)
(* cancellations of its Run while the stream is in flight.                 *)
(***************************************************************************)
RunNext ==
  \/ Post(1, "b1") /\ NoConvert /\ NoNormalize
  \/ SelectRunning(1) /\ NoConvert /\ NoNormalize
  \/ InsertInteraction(1) /\ NoConvert /\ NoNormalize
  \/ \E logger \in {"route", "wrap"} : AgentResponse(1, "stream", logger) /\ NoConvert /\ NoNormalize
  \/ \E chunk \in Chunks : Transform(1, chunk) /\ NoConvert /\ NoNormalize
  \/ Flush(1) /\ NoConvert /\ NoNormalize
  \/ \E op \in pending : CompleteInsert(op) /\ NoConvert /\ NoNormalize
  \/ \E op \in pending : CompleteUpdate(op) /\ NoConvert /\ NoNormalize
  \/ \E id \in 1..(Len(interactions) + 1), status \in {"running", "canceled", "bogus"} :
       Patch(id, status) /\ NoConvert /\ NoNormalize
  \/ Cancel("b1") /\ NoConvert /\ NoNormalize

RunSpec == Init /\ [][RunNext]_vars

(***************************************************************************)
(* StatusSpec: one request whose stream carries error and finish events in *)
(* either order, in one chunk or in two.                                   *)
(***************************************************************************)
StatusChunks ==
  { << "data: " \o ErrorEv, "data: " \o FinishEv, "" >>,
    << "data: " \o FinishEv, "data: " \o ErrorEv, "" >>,
    << "data: " \o FinishEv, "" >>,
    << "data: " \o ErrorEv, "" >>,
    << "data: " \o TextDelta, "" >> }

StatusNext ==
  \/ Post(1, "b1") /\ NoConvert /\ NoNormalize
  \/ SelectRunning(1) /\ NoConvert /\ NoNormalize
  \/ InsertInteraction(1) /\ NoConvert /\ NoNormalize
  \/ \E logger \in {"route", "wrap"} : AgentResponse(1, "stream", logger) /\ NoConvert /\ NoNormalize
  \/ \E chunk \in StatusChunks : Transform(1, chunk) /\ NoConvert /\ NoNormalize
  \/ Flush(1) /\ NoConvert /\ NoNormalize
  \/ \E op \in pending : CompleteInsert(op) /\ NoConvert /\ NoNormalize
  \/ \E op \in pending : CompleteUpdate(op) /\ NoConvert /\ NoNormalize

StatusSpec == Init /\ [][StatusNext]_vars

(***************************************************************************)
(* SentinelSpec: one request whose stream carries the [DONE] sentinel,     *)
(* lines of other SSE fields and comments, and events.                     *)
(***************************************************************************)
SentinelChunks ==
  { << "data: [DONE]", "", "" >>,
    << ": ping", "event: message", "id: 7", "data:" \o TextDelta, "" >>,
    << "data: " \o TextDelta, "", "data: [DONE]", "", "" >>,
    << "data: " \o ErrorEv, "" >> }

SentinelNext ==
  \/ Post(1, "b1") /\ NoConvert /\ NoNormalize
  \/ SelectRunning(1) /\ NoConvert /\ NoNormalize
  \/ InsertInteraction(1) /\ NoConvert /\ NoNormalize
  \/ \E logger \in {"route", "wrap"} : AgentResponse(1, "stream", logger) /\ NoConvert /\ NoNormalize
  \/ \E chunk \in SentinelChunks : Transform(1, chunk) /\ NoConvert /\ NoNormalize
  \/ Flush(1) /\ NoConvert /\ NoNormalize
  \/ \E op \in pending : CompleteInsert(op) /\ NoConvert /\ NoNormalize
  \/ \E op \in pending : CompleteUpdate(op) /\ NoConvert /\ NoNormalize

SentinelSpec == Init /\ [][SentinelNext]_vars

(***************************************************************************)
(* FieldSpec: inferRole and extractStreamId called with one event: an      *)
(* object with or without role, type, id, toolCallId and messageId, each   *)
(* a string or a value of another type; or a value that is not an object.  *)
(***************************************************************************)
RoleValues ==
  { Undefined, S("user"), S("USER"), S("System"), S("tool"), S("Assistant"),
    S("admin"), S(""), JNum(1), JNull }
TypeValues ==
  { Undefined, S("tool-input-start"), S("tool-"), S("tool"), S("text-delta"),
    S("TOOL-call"), JNum(1) }
IdValues == { Undefined, S("a"), S(""), JNum(1), JNull }
ToolCallIdValues == { Undefined, S("b"), JNum(2) }
MessageIdValues == { Undefined, S("c"), JBool(TRUE) }

\* the object of the fields that have a value
ObjOf(fields) ==
  Obj([k \in {f \in DOMAIN fields : fields[f] # Undefined} |-> fields[k]])

FieldEvents ==
  { ObjOf([role |-> r, type |-> t, id |-> i, toolCallId |-> c, messageId |-> m]) :
      r \in RoleValues, t \in TypeValues, i \in IdValues,
      c \in ToolCallIdValues, m \in MessageIdValues }
    \cup { JNull, JArray, S("tool-x"), JNum(0), JBool(TRUE) }

FieldCall ==
  /\ StoreInit
  /\ ConvertInit
  /\ events = <<>>
  /\ returned = TRUE
  /\ rawEvent \in FieldEvents
  /\ canonical = <<>>

\* return of inferRole(rawEvent)
InferRoleReturn ==
  /\ canonical = <<>>
  /\ canonical' = << [call |-> "inferRole", value |-> inferRole(rawEvent)] >>
  /\ UNCHANGED << rawEvent, storeVars, convertVars >>

\* return of extractStreamId(rawEvent)
ExtractStreamIdReturn ==
  /\ canonical = <<>>
  /\ canonical' = << [call |-> "extractStreamId", value |-> extractStreamId(rawEvent)] >>
  /\ UNCHANGED << rawEvent, storeVars, convertVars >>

FieldNext ==
  \/ InferRoleReturn
  \/ ExtractStreamIdReturn

FieldSpec == FieldCall /\ [][FieldNext]_vars

(***************************************************************************)
(* EndSpec: RunSpec with a store that serves every status update it was    *)
(* handed (the query is on its way to PostgreSQL and is answered).         *)
(***************************************************************************)
ServeUpdate == \E op \in pending : CompleteUpdate(op) /\ NoConvert /\ NoNormalize

EndSpec == Init /\ [][RunNext]_vars /\ WF_vars(ServeUpdate)

(***************************************************************************)
(* The transcript reconstruction, convertEventsToMessages(events).  The    *)
(* events are rows of the event log: what normalizeEvent made of a payload,*)
(* with the row id and the sequence number the logger gave it.             *)
(***************************************************************************)
MaxEvents == 4

PTextStart == Obj([type |-> S("text-start"), id |-> S("s1")])
PTextDelta == Obj([type |-> S("text-delta"), id |-> S("s1"), delta |-> S("hi")])
PTextEnd == Obj([type |-> S("text-end"), id |-> S("s1")])
PUser == Obj([type |-> S("data-message"), role |-> S("user")])
PToolInput ==
  Obj([type |-> S("tool-input-available"), toolCallId |-> S("t1"),
       toolName |-> S("search"), input |-> S("q")])
PToolOutput ==
  Obj([type |-> S("tool-output-available"), toolCallId |-> S("t1"),
       output |-> S("ok")])

Payloads == {PTextStart, PTextDelta, PTextEnd, PUser, PToolInput, PToolOutput}

\* the n-th row of a log: the logger counts seq from 0, the store ids from 1
InteractionEvent(payload, n) ==
  LET e == normalizeEvent(payload)[1]
  IN [interactionEventId |-> n, seq |-> n - 1, role |-> e.role,
      eventFamily |-> e.eventFamily, eventType |-> e.eventType,
      streamId |-> e.streamId, payload |-> e.payload]

\* Map.set, Map.delete
MapSet(map, key, value) ==
  [k \in DOMAIN map \cup {key} |-> IF k = key THEN value ELSE map[k]]
MapDelete(map, key) == [k \in DOMAIN map \ {key} |-> map[k]]

\* a part of currentMessage that is a toolCallMap entry
IsToolRef(part) == "ref" \in DOMAIN part
Deref(part, tools) == IF IsToolRef(part) THEN tools[part.ref] ELSE part

\* (a part put at the end whatever its key)
insertPartLast(sorted, part) == Append(sorted, part)

\* [...parts].sort((a, b) => seqA - seqB): the sort is stable
insertPart(sorted, part) ==
  LET k == Cardinality({i \in 1..Len(sorted) : sorted[i].partSeq <= part.partSeq})
  IN SubSeq(sorted, 1, k) \o << part >> \o SubSeq(sorted, k + 1, Len(sorted))

RECURSIVE sortParts(_)
sortParts(parts) ==
  IF parts = <<>> THEN <<>>
  ELSE insertPart(sortParts(SubSeq(parts, 1, Len(parts) - 1)), parts[Len(parts)])

\* sortedParts.map(...): a text part keeps type and text, a tool part is
\* copied without its partSeq
cleanPart(part) ==
  IF "text" \in DOMAIN part /\ (part.type = "text" \/ part.type = "reasoning")
    THEN [type |-> part.type, text |-> part.text]
    ELSE [type |-> part.type, toolCallId |-> part.toolCallId,
          input |-> part.input, output |-> part.output, state |-> part.state]

\* (the message pushed whether or not it has parts)
pushMessageAlways(msgs, current, tools) ==
  IF current # <<>>
    THEN LET sortedParts ==
               sortParts([i \in 1..Len(current[1].parts) |->
                            Deref(current[1].parts[i], tools)])
             cleanedParts == [i \in 1..Len(sortedParts) |-> cleanPart(sortedParts[i])]
         IN Append(msgs, [id |-> current[1].id, role |-> current[1].role,
                          parts |-> cleanedParts])
    ELSE msgs

\* messages after "save previous message if it has parts"
pushMessage(msgs, current, tools) ==
  IF current # <<>> /\ Len(current[1].parts) > 0
    THEN LET sortedParts ==
               sortParts([i \in 1..Len(current[1].parts) |->
                            Deref(current[1].parts[i], tools)])
             cleanedParts == [i \in 1..Len(sortedParts) |-> cleanPart(sortedParts[i])]
         IN Append(msgs, [id |-> current[1].id, role |-> current[1].role,
                          parts |-> cleanedParts])
    ELSE msgs

\* (no stream id read: every event its own key)
idPerEvent(event, prefix) ==
  prefix \o "-" \o ToString(event.interactionEventId)

\* event.streamId || `<prefix>-${event.interactionEventId}`
idOr(event, prefix) ==
  IF Truthy(event.streamId) THEN event.streamId.s
  ELSE prefix \o "-" \o ToString(event.interactionEventId)

\* (a part appended as soon as its -start is read)
textEventOnStart(event, st) ==
  LET payload == event.payload
      streamId == idOr(event, event.eventFamily)
      acc == st.acc
  IN IF EndsWith(event.eventType, "-start")
       THEN LET text == IF IsString(Get(payload, "text"))
                          THEN Get(payload, "text").s ELSE ""
            IN [st EXCEPT !.acc = MapSet(acc, streamId,
                                         [type |-> event.eventFamily, text |-> text,
                                          partSeq |-> event.seq]),
                          !.parts = Append(@, [type |-> event.eventFamily, text |-> text,
                                               partSeq |-> event.seq])]
     ELSE IF EndsWith(event.eventType, "-delta")
       THEN IF streamId \in DOMAIN acc
              THEN LET delta == IF IsString(Get(payload, "delta"))
                                  THEN Get(payload, "delta").s
                                ELSE IF IsString(Get(payload, "text"))
                                  THEN Get(payload, "text").s
                                ELSE ""
                   IN [st EXCEPT !.acc = [acc EXCEPT ![streamId].text = @ \o delta]]
              ELSE st
     ELSE IF EndsWith(event.eventType, "-end")
       THEN IF streamId \in DOMAIN acc
              THEN [st EXCEPT !.acc = MapDelete(acc, streamId)]
              ELSE st
     ELSE st

\* text and reasoning events; st carries parts, acc (streamAccumulators) and
\* tools (toolCallMap)
textEvent(event, st) ==
  LET payload == event.payload
      streamId == idOr(event, event.eventFamily)
      acc == st.acc
  IN IF EndsWith(event.eventType, "-start")
       THEN [st EXCEPT !.acc =
               MapSet(acc, streamId,
                      [type |-> event.eventFamily,
                       text |-> IF IsString(Get(payload, "text"))
                                  THEN Get(payload, "text").s ELSE "",
                       partSeq |-> event.seq])]
     ELSE IF EndsWith(event.eventType, "-delta")
       THEN IF streamId \in DOMAIN acc
              THEN LET delta == IF IsString(Get(payload, "delta"))
                                  THEN Get(payload, "delta").s
                                ELSE IF IsString(Get(payload, "text"))
                                  THEN Get(payload, "text").s
                                ELSE ""
                   IN [st EXCEPT !.acc = [acc EXCEPT ![streamId].text = @ \o delta]]
              ELSE st
     ELSE IF EndsWith(event.eventType, "-end")
       THEN IF streamId \in DOMAIN acc
              THEN [st EXCEPT !.parts = Append(@, [type |-> acc[streamId].type,
                                                   text |-> acc[streamId].text,
                                                   partSeq |-> acc[streamId].partSeq]),
                              !.acc = MapDelete(acc, streamId)]
              ELSE st
     ELSE st

toolCallIdOf(event) ==
  IF IsString(Get(event.payload, "toolCallId")) /\ Truthy(Get(event.payload, "toolCallId"))
    THEN Get(event.payload, "toolCallId").s
    ELSE idOr(event, "tool")

toolTypeOf(event) ==
  "tool-" \o (IF IsString(Get(event.payload, "toolName"))
                THEN Get(event.payload, "toolName").s ELSE "unknown")

\* (a tool-output that appends a part also when its call has an entry)
toolEventAppends(event, st) ==
  LET payload == event.payload
      toolCallId == toolCallIdOf(event)
      tools == st.tools
  IN IF event.eventFamily = "tool-input"
       THEN IF toolCallId \notin DOMAIN tools
              THEN [st EXCEPT
                      !.tools = MapSet(tools, toolCallId,
                                       [type |-> toolTypeOf(event),
                                        toolCallId |-> toolCallId,
                                        partSeq |-> event.seq,
                                        input |-> payload,
                                        output |-> Undefined,
                                        state |-> "input-available"]),
                      !.parts = Append(@, [ref |-> toolCallId])]
              ELSE [st EXCEPT
                      !.tools = [tools EXCEPT
                                   ![toolCallId].input = payload,
                                   ![toolCallId].partSeq =
                                      IF event.seq < @ THEN event.seq ELSE @]]
       ELSE LET output == IF Truthy(Get(payload, "output"))
                            THEN Get(payload, "output") ELSE payload
            IN IF toolCallId \notin DOMAIN tools
                 THEN [st EXCEPT
                         !.tools = MapSet(tools, toolCallId,
                                          [type |-> toolTypeOf(event),
                                           toolCallId |-> toolCallId,
                                           partSeq |-> event.seq,
                                           input |-> Undefined,
                                           output |-> output,
                                           state |-> "output-available"]),
                         !.parts = Append(@, [ref |-> toolCallId])]
                 ELSE [st EXCEPT
                         !.tools = [tools EXCEPT
                                      ![toolCallId].output = output,
                                      ![toolCallId].state = "output-available"],
                         !.parts = Append(@, [ref |-> toolCallId])]

\* (a repeated tool-input that starts the entry again)
toolEventResets(event, st) ==
  LET payload == event.payload
      toolCallId == toolCallIdOf(event)
      tools == st.tools
  IN IF event.eventFamily = "tool-input"
       THEN [st EXCEPT
               !.tools = MapSet(tools, toolCallId,
                                [type |-> toolTypeOf(event),
                                 toolCallId |-> toolCallId,
                                 partSeq |-> event.seq,
                                 input |-> payload,
                                 output |-> Undefined,
                                 state |-> "input-available"]),
               !.parts = IF toolCallId \in DOMAIN tools THEN @
                         ELSE Append(@, [ref |-> toolCallId])]
       ELSE LET output == IF Truthy(Get(payload, "output"))
                            THEN Get(payload, "output") ELSE payload
            IN IF toolCallId \notin DOMAIN tools
                 THEN [st EXCEPT
                         !.tools = MapSet(tools, toolCallId,
                                          [type |-> toolTypeOf(event),
                                           toolCallId |-> toolCallId,
                                           partSeq |-> event.seq,
                                           input |-> Undefined,
                                           output |-> output,
                                           state |-> "output-available"]),
                         !.parts = Append(@, [ref |-> toolCallId])]
                 ELSE [st EXCEPT
                         !.tools = [tools EXCEPT
                                      ![toolCallId].output = output,
                                      ![toolCallId].state = "output-available"]]

\* tool-input and tool-output events
toolEvent(event, st) ==
  LET payload == event.payload
      toolCallId == toolCallIdOf(event)
      tools == st.tools
  IN IF event.eventFamily = "tool-input"
       THEN IF toolCallId \notin DOMAIN tools
              THEN [st EXCEPT
                      !.tools = MapSet(tools, toolCallId,
                                       [type |-> toolTypeOf(event),
                                        toolCallId |-> toolCallId,
                                        partSeq |-> event.seq,
                                        input |-> payload,
                                        output |-> Undefined,
                                        state |-> "input-available"]),
                      !.parts = Append(@, [ref |-> toolCallId])]
              ELSE [st EXCEPT
                      !.tools = [tools EXCEPT
                                   ![toolCallId].input = payload,
                                   ![toolCallId].partSeq =
                                      IF event.seq < @ THEN event.seq ELSE @]]
       ELSE LET output == IF Truthy(Get(payload, "output"))
                            THEN Get(payload, "output") ELSE payload
            IN IF toolCallId \notin DOMAIN tools
                 THEN [st EXCEPT
                         !.tools = MapSet(tools, toolCallId,
                                          [type |-> toolTypeOf(event),
                                           toolCallId |-> toolCallId,
                                           partSeq |-> event.seq,
                                           input |-> Undefined,
                                           output |-> output,
                                           state |-> "output-available"]),
                         !.parts = Append(@, [ref |-> toolCallId])]
                 ELSE [st EXCEPT
                         !.tools = [tools EXCEPT
                                      ![toolCallId].output = output,
                                      ![toolCallId].state = "output-available"]]

\* (one turn of the loop with the accumulators dropped when a message opens)
ConvertStepAccPerMessage ==
  /\ ~returned
  /\ cursor <= Len(events)
  /\ LET event == events[cursor]
         role == IF event.role = "user" THEN "user" ELSE "assistant"
         boundary == currentMessage = <<>> \/ currentMessage[1].role # role
         parts == IF boundary THEN <<>> ELSE currentMessage[1].parts
         before == [parts |-> parts,
                    acc |-> IF boundary THEN EmptyMap ELSE streamAccumulators,
                    tools |-> toolCallMap]
         after == IF event.eventFamily = "text" \/ event.eventFamily = "reasoning"
                    THEN textEvent(event, before)
                  ELSE IF event.eventFamily = "tool-input"
                          \/ event.eventFamily = "tool-output"
                    THEN toolEvent(event, before)
                  ELSE before
     IN /\ messages' = IF boundary
                         THEN pushMessage(messages, currentMessage, toolCallMap)
                         ELSE messages
        /\ currentMessage' =
             IF boundary
               THEN << [id |-> idOr(event, "msg"), role |-> role,
                        firstSeq |-> event.seq, parts |-> after.parts] >>
               ELSE << [currentMessage[1] EXCEPT !.parts = after.parts] >>
        /\ streamAccumulators' = after.acc
        /\ toolCallMap' = after.tools
  /\ cursor' = cursor + 1
  /\ UNCHANGED << events, returned, storeVars >>

\* (one turn of the loop with the role of the event kept as the message role)
ConvertStepRoleKept ==
  /\ ~returned
  /\ cursor <= Len(events)
  /\ LET event == events[cursor]
         role == event.role
         boundary == currentMessage = <<>> \/ currentMessage[1].role # role
         parts == IF boundary THEN <<>> ELSE currentMessage[1].parts
         before == [parts |-> parts, acc |-> streamAccumulators, tools |-> toolCallMap]
         after == IF event.eventFamily = "text" \/ event.eventFamily = "reasoning"
                    THEN textEvent(event, before)
                  ELSE IF event.eventFamily = "tool-input"
                          \/ event.eventFamily = "tool-output"
                    THEN toolEvent(event, before)
                  ELSE before
     IN /\ messages' = IF boundary
                         THEN pushMessage(messages, currentMessage, toolCallMap)
                         ELSE messages
        /\ currentMessage' =
             IF boundary
               THEN << [id |-> idOr(event, "msg"), role |-> role,
                        firstSeq |-> event.seq, parts |-> after.parts] >>
               ELSE << [currentMessage[1] EXCEPT !.parts = after.parts] >>
        /\ streamAccumulators' = after.acc
        /\ toolCallMap' = after.tools
  /\ cursor' = cursor + 1
  /\ UNCHANGED << events, returned, storeVars >>

\* (one turn of the loop that opens a message only when there is none)
ConvertStepOneMessage ==
  /\ ~returned
  /\ cursor <= Len(events)
  /\ LET event == events[cursor]
         role == IF event.role = "user" THEN "user" ELSE "assistant"
         boundary == currentMessage = <<>>
         parts == IF boundary THEN <<>> ELSE currentMessage[1].parts
         before == [parts |-> parts, acc |-> streamAccumulators, tools |-> toolCallMap]
         after == IF event.eventFamily = "text" \/ event.eventFamily = "reasoning"
                    THEN textEvent(event, before)
                  ELSE IF event.eventFamily = "tool-input"
                          \/ event.eventFamily = "tool-output"
                    THEN toolEvent(event, before)
                  ELSE before
     IN /\ messages' = messages
        /\ currentMessage' =
             IF boundary
               THEN << [id |-> idOr(event, "msg"), role |-> role,
                        firstSeq |-> event.seq, parts |-> after.parts] >>
               ELSE << [currentMessage[1] EXCEPT !.parts = after.parts] >>
        /\ streamAccumulators' = after.acc
        /\ toolCallMap' = after.tools
  /\ cursor' = cursor + 1
  /\ UNCHANGED << events, returned, storeVars >>

\* one turn of "for (const event of events)"
ConvertStep ==
  /\ ~returned
  /\ cursor <= Len(events)
  /\ LET event == events[cursor]
         role == IF event.role = "user" THEN "user" ELSE "assistant"
         boundary == currentMessage = <<>> \/ currentMessage[1].role # role
         parts == IF boundary THEN <<>> ELSE currentMessage[1].parts
         before == [parts |-> parts, acc |-> streamAccumulators, tools |-> toolCallMap]
         after == IF event.eventFamily = "text" \/ event.eventFamily = "reasoning"
                    THEN textEvent(event, before)
                  ELSE IF event.eventFamily = "tool-input"
                          \/ event.eventFamily = "tool-output"
                    THEN toolEvent(event, before)
                  ELSE before
     IN /\ messages' = IF boundary
                         THEN pushMessage(messages, currentMessage, toolCallMap)
                         ELSE messages
        /\ currentMessage' =
             IF boundary
               THEN << [id |-> idOr(event, "msg"), role |-> role,
                        firstSeq |-> event.seq, parts |-> after.parts] >>
               ELSE << [currentMessage[1] EXCEPT !.parts = after.parts] >>
        /\ streamAccumulators' = after.acc
        /\ toolCallMap' = after.tools
  /\ cursor' = cursor + 1
  /\ UNCHANGED << events, returned, storeVars >>

\* (a return that leaves the array it was given emptied)
ConvertReturnConsuming ==
  /\ ~returned
  /\ cursor > Len(events)
  /\ messages' = IF Len(events) = 0 THEN <<>>
                 ELSE pushMessage(messages, currentMessage, toolCallMap)
  /\ returned' = TRUE
  /\ events' = <<>>
  /\ UNCHANGED << cursor, currentMessage, streamAccumulators, toolCallMap,
                  storeVars >>

\* after the loop: "don't forget the last message", return messages
ConvertReturn ==
  /\ ~returned
  /\ cursor > Len(events)
  /\ messages' = IF Len(events) = 0 THEN <<>>
                 ELSE pushMessage(messages, currentMessage, toolCallMap)
  /\ returned' = TRUE
  /\ UNCHANGED << events, cursor, currentMessage, streamAccumulators, toolCallMap,
                  storeVars >>

\* convertEventsToMessages is called with an event log
ConvertCall ==
  /\ StoreInit
  /\ ConvertInit
  /\ NormalizeIdle
  /\ returned = FALSE
  /\ \E n \in 0..MaxEvents :
       \E log \in [1..n -> Payloads] :
         events = [i \in 1..n |-> InteractionEvent(log[i], i)]

ConvertNext ==
  \/ ConvertStep /\ NoNormalize
  \/ ConvertReturn /\ NoNormalize

ConvertSpec == ConvertCall /\ [][ConvertNext]_vars

(***************************************************************************)
(* TextSpec: convertEventsToMessages over the log of one text or reasoning *)
(* stream: a -start event with or without seed text, deltas, an -end event,*)
(* all of one role.                                                        *)
(***************************************************************************)
MaxDeltas == 3

\* a payload with a role field set (inferRole reads it)
WithRole(payload, role) ==
  IF role = "assistant" THEN payload
  ELSE Obj(payload.o @@ [role |-> S(role)])

StartPayload(family, seed) ==
  IF seed = "" THEN Obj([type |-> S(family \o "-start"), id |-> S("s1")])
  ELSE Obj([type |-> S(family \o "-start"), id |-> S("s1"), text |-> S(seed)])
DeltaPayload(family, delta) ==
  Obj([type |-> S(family \o "-delta"), id |-> S("s1"), delta |-> S(delta)])
EndPayload(family) == Obj([type |-> S(family \o "-end"), id |-> S("s1")])

TextLog(family, role, seed, deltas) ==
  << WithRole(StartPayload(family, seed), role) >>
    \o [i \in 1..Len(deltas) |-> WithRole(DeltaPayload(family, deltas[i]), role)]
    \o << WithRole(EndPayload(family), role) >>

TextCall ==
  /\ StoreInit
  /\ ConvertInit
  /\ NormalizeIdle
  /\ returned = FALSE
  /\ \E family \in {"text", "reasoning"}, role \in {"assistant", "user"},
        seed \in {"", "x"}, n \in 0..MaxDeltas :
       \E deltas \in [1..n -> {"a", "b"}] :
         LET log == TextLog(family, role, seed, deltas)
         IN events = [i \in 1..Len(log) |-> InteractionEvent(log[i], i)]

TextSpec == TextCall /\ [][ConvertNext]_vars

(***************************************************************************)
(* convertEventsToMessages as a function of the array it is given: the     *)
(* locals after the loop has run over the first n events, and the return   *)
(* value.                                                                  *)
(***************************************************************************)
loopBody(loc, event) ==
  LET role == IF event.role = "user" THEN "user" ELSE "assistant"
      boundary == loc.currentMessage = <<>> \/ loc.currentMessage[1].role # role
      parts == IF boundary THEN <<>> ELSE loc.currentMessage[1].parts
      before == [parts |-> parts, acc |-> loc.streamAccumulators,
                 tools |-> loc.toolCallMap]
      after == IF event.eventFamily = "text" \/ event.eventFamily = "reasoning"
                 THEN textEvent(event, before)
               ELSE IF event.eventFamily = "tool-input"
                       \/ event.eventFamily = "tool-output"
                 THEN toolEvent(event, before)
               ELSE before
  IN [messages |-> IF boundary
                     THEN pushMessage(loc.messages, loc.currentMessage, loc.toolCallMap)
                     ELSE loc.messages,
      currentMessage |->
        IF boundary
          THEN << [id |-> idOr(event, "msg"), role |-> role,
                   firstSeq |-> event.seq, parts |-> after.parts] >>
          ELSE << [loc.currentMessage[1] EXCEPT !.parts = after.parts] >>,
      streamAccumulators |-> after.acc,
      toolCallMap |-> after.tools]

RECURSIVE loopOver(_, _)
loopOver(evs, n) ==
  IF n = 0
    THEN [messages |-> <<>>, currentMessage |-> <<>>,
          streamAccumulators |-> EmptyMap, toolCallMap |-> EmptyMap]
    ELSE loopBody(loopOver(evs, n - 1), evs[n])

convertEventsToMessages(evs) ==
  IF Len(evs) = 0 THEN <<>>
  ELSE LET loc == loopOver(evs, Len(evs))
       IN pushMessage(loc.messages, loc.currentMessage, loc.toolCallMap)

(***************************************************************************)
(* ShuffleSpec: convertEventsToMessages is given the rows of a log in any  *)
(* order of the array.                                                     *)
(***************************************************************************)
MaxShuffled == 3

ShuffledCall ==
  /\ StoreInit
  /\ ConvertInit
  /\ NormalizeIdle
  /\ returned = FALSE
  /\ \E n \in 0..MaxShuffled :
       \E log \in [1..n -> Payloads] :
         \E order \in Permutations(1..n) :
           events = [i \in 1..n |-> InteractionEvent(log[order[i]], order[i])]

ShuffleSpec == ShuffledCall /\ [][ConvertNext]_vars

(***************************************************************************)
(* AnomalySpec: convertEventsToMessages over logs of fragments: deltas and *)
(* ends without their start, events without an id, tool outputs without    *)
(* their input, a tool whose output is false.                              *)
(***************************************************************************)
MaxAnomalyEvents == 4

PDeltaNoId == Obj([type |-> S("text-delta"), delta |-> S("hi")])
PToolOutputFalse ==
  Obj([type |-> S("tool-output-available"), toolCallId |-> S("t2"),
       output |-> JBool(FALSE)])

AnomalyPayloads ==
  { PTextStart, PTextDelta, PTextEnd, PDeltaNoId, PUser,
    PToolInput, PToolOutput, PToolOutputFalse }

AnomalyCall ==
  /\ StoreInit
  /\ ConvertInit
  /\ NormalizeIdle
  /\ returned = FALSE
  /\ \E n \in 0..MaxAnomalyEvents :
       \E log \in [1..n -> AnomalyPayloads] :
         events = [i \in 1..n |-> InteractionEvent(log[i], i)]

AnomalySpec == AnomalyCall /\ [][ConvertNext]_vars

(***************************************************************************)
(* RoleSpec: convertEventsToMessages over logs of events of the four roles *)
(* of the normaliser.                                                      *)
(***************************************************************************)
MaxRoleEvents == 4

RolePayloads ==
  { WithRole(StartPayload("text", "x"), role) : role \in {"user", "assistant", "system"} }
    \cup { WithRole(EndPayload("text"), role) : role \in {"user", "assistant", "system"} }
    \cup { PToolInput }

RoleCall ==
  /\ StoreInit
  /\ ConvertInit
  /\ NormalizeIdle
  /\ returned = FALSE
  /\ \E n \in 0..MaxRoleEvents :
       \E log \in [1..n -> RolePayloads] :
         events = [i \in 1..n |-> InteractionEvent(log[i], i)]

RoleSpec == RoleCall /\ [][ConvertNext]_vars

(***************************************************************************)
(* SegmentSpec: convertEventsToMessages over logs of text streams of a     *)
(* user and of the assistant and of a tool call, in sequence order.        *)
(***************************************************************************)
MaxSegmentEvents == 5

SegmentPayloads ==
  { WithRole(StartPayload("text", "x"), "user"), WithRole(EndPayload("text"), "user"),
    StartPayload("text", ""), EndPayload("text"), PToolInput }

SegmentCall ==
  /\ StoreInit
  /\ ConvertInit
  /\ NormalizeIdle
  /\ returned = FALSE
  /\ \E n \in 0..MaxSegmentEvents :
       \E log \in [1..n -> SegmentPayloads] :
         events = [i \in 1..n |-> InteractionEvent(log[i], i)]

SegmentSpec == SegmentCall /\ [][ConvertNext]_vars

(***************************************************************************)
(* NormalizeSpec: normalizeEvent is called with one decoded value: an      *)
(* object with a type built from the prefixes and words the family rules   *)
(* look at, with or without role and id, an object without a string type,  *)
(* or a value that is not an object.                                       *)
(***************************************************************************)
TypePrefixes == {"", "text-", "reasoning-", "tool-input-", "tool-output-", "data-", "tool-"}
TypeWords == {"", "start", "finish", "error", "delta", "available", "an-error-x"}
EventTypes == {prefix \o word : prefix \in TypePrefixes, word \in TypeWords}

RawEvents ==
  {Obj([type |-> S(t)]) : t \in EventTypes}
    \cup {Obj([type |-> S(t), role |-> S(r), id |-> S("s1")]) :
            t \in {"text-delta", "tool-input-error"}, r \in {"USER", "tool", "nobody"}}
    \cup {Obj([id |-> S("s1")]), Obj([type |-> JNum(1)]), Obj([type |-> JNull]),
          Obj([type |-> Obj([type |-> S("error")])])}
    \cup {JNull, JArray, S("text-start"), S(""), JNum(0), JNum(1),
          JBool(TRUE), JBool(FALSE)}

NormalizeCall ==
  /\ StoreInit
  /\ ConvertInit
  /\ events = <<>>
  /\ returned = TRUE
  /\ rawEvent \in RawEvents
  /\ canonical = <<>>

\* return of normalizeEvent(rawEvent)
NormalizeReturn ==
  /\ canonical = <<>>
  /\ canonical' = << normalizeEvent(rawEvent) >>
  /\ UNCHANGED << rawEvent, storeVars, convertVars >>

NormalizeNext == NormalizeReturn

NormalizeSpec == NormalizeCall /\ [][NormalizeNext]_vars

(***************************************************************************)
(* Properties                                                              *)
(***************************************************************************)
Runs == 1..Len(interactions)
ChunkEvents == CHOOSE c \in Chunks : c[1] = "data: " \o TextDelta
ChunkSplit == CHOOSE c \in Chunks : c[1] = "ish\"}"

\* C1 (LogSpec): what a logging stream has written to its output is, chunk
\* for chunk and in order, what it has read from the agent stream, whatever
\* the lines of the chunks were and whatever became of the inserts.
C1_Passthrough ==
  \A p \in Procs : req[p].output = req[p].input

\* a closed stream that read a chunk with a malformed line and the chunk with
\* the non-object payloads, and of whose inserts none reached the table
C1_Witness ==
  \E p \in Procs :
    /\ req[p].pc = "closed"
    /\ req[p].input = << ChunkEvents, ChunkSplit >>
    /\ req[p].seq = 2
    /\ \A op \in pending : op.by # p
    /\ \A row \in interactionEvents : row.by # p

\* C2 (Spec): no browser session ever has two running Runs.
C2_AtMostOneRunning ==
  \A b \in Browsers : Cardinality(RunningFor(b)) <= 1

\* two Runs of one browser session, one running and one not, after a PATCH
C2_Witness ==
  /\ patches = 1
  /\ \E i, j \in Runs :
       /\ interactions[i].browserId = interactions[j].browserId
       /\ interactions[i].status = "running"
       /\ interactions[j].status # "running"

\* C3 (Spec): when every request of a browser session is through the
\* find-or-create, no Run of the session has finished and the store has
\* failed no insert, the session has exactly one running Run, every request
\* holds that Run and none was answered with an error of the find-or-create.
InArbiter(p) == req[p].pc \in {"idle", "select", "insert", "fallback"}
Callers(b) == {p \in Procs : req[p].browserId = b}
NoneFinished(b) ==
  \A i \in Runs : interactions[i].browserId = b => interactions[i].finishedAt = <<>>
C3_RaceSettles ==
  \A b \in Browsers :
    ( /\ Callers(b) # {}
      /\ \A p \in Callers(b) : ~InArbiter(p) /\ req[p].caught \notin StoreErrors
      /\ NoneFinished(b) )
    => /\ Cardinality(RunningFor(b)) = 1
       /\ \A p \in Callers(b) :
            /\ req[p].interaction \in RunningFor(b)
            /\ req[p].found \in {"created", "raced", "reused"}

\* two requests of one session, one created the Run and the other lost the
\* race on the insert and found it by the second lookup
C3_Witness ==
  \E p, q \in Procs :
    /\ req[p].found = "created" /\ req[q].found = "raced"
    /\ req[p].browserId = req[q].browserId
    /\ req[p].interaction = req[q].interaction
    /\ NoneFinished(req[p].browserId)

\* C4 (LogSpec): the Event rows of one Run have pairwise distinct sequence
\* numbers, and of two rows of one stream the one observed earlier has the
\* smaller sequence number, in whatever order the inserts were served.
Before(a, b) == a[1] < b[1] \/ (a[1] = b[1] /\ a[2] < b[2])
C4_SequenceMonotone ==
  \A r1, r2 \in interactionEvents :
    (r1 # r2 /\ r1.interactionId = r2.interactionId)
    => /\ r1.seq # r2.seq
       /\ (r1.by = r2.by /\ Before(r1.pos, r2.pos)) => r1.seq < r2.seq

\* a Run with rows of two streams, one of them stored while an earlier event
\* of its stream is still waiting for its insert
C4_Witness ==
  \E r1, r2 \in interactionEvents :
    /\ r1.interactionId = r2.interactionId /\ r1.by # r2.by
    /\ r1.seq = 1
    /\ \E op \in pending : op.op = "insert" /\ op.by = r1.by /\ op.row.seq = 0

\* C5 (RunSpec): one stream issues one status / finished-at write, however
\* many finish events it sees before it ends.
C5_OneTerminalWrite ==
  \A p \in Procs :
    /\ req[p].updates <= 1
    /\ req[p].pc = "closed" => req[p].updates = 1

\* C6 (RunSpec): a Run whose status a cancellation or a PATCH has set to a
\* non-running value is left as it is by the terminal update of its stream.
C6_CancelNotOverwritten ==
  [][ \A op \in pending :
        (op.op = "update" /\ op \notin pending' /\ op.interactionId \in outOfBand)
        => interactions'[op.interactionId] = interactions[op.interactionId] ]_vars

\* C7 (Spec): the status of a Run that has left running is never running again.
C7_StatusMonotone ==
  [][ \A i \in Runs :
        interactions[i].status # "running" => interactions'[i].status # "running" ]_vars

\* C8 (RunSpec): finished-at is null while the Run is running and, once set,
\* is never changed.
C8_FinishedAtOnce ==
  [][ \A i \in Runs :
        /\ interactions[i].finishedAt # <<>>
             => interactions'[i].finishedAt = interactions[i].finishedAt
        /\ interactions'[i].status = "running" => interactions'[i].finishedAt = <<>> ]_vars

\* C9 (LogSpec): when a stream has ended and the store has served all its
\* operations, the payloads of its rows, by ascending sequence number, are the
\* JSON objects on the data lines of its input, one for one and in order.
RECURSIVE EventsOf(_)
EventsOf(lines) ==
  IF lines = <<>> THEN <<>>
  ELSE LET line == Head(lines)
           parsed == IF StartsWith(line, "data: ")
                       THEN JSONparse(SubSeq(line, 7, Len(line)))
                       ELSE <<>>
       IN (IF parsed # <<>> /\ isRecord(parsed[1]) THEN parsed ELSE <<>>)
          \o EventsOf(Tail(lines))
Emitted(p) == EventsOf(JoinAll(req[p].input))

RECURSIVE BySeq(_)
BySeq(rows) ==
  IF rows = {} THEN <<>>
  ELSE LET first == CHOOSE r \in rows : \A o \in rows : r.seq <= o.seq
       IN << first.payload >> \o BySeq(rows \ {first})
Logged(p) == BySeq({row \in interactionEvents : row.by = p})
Settled(p) == req[p].pc = "closed" /\ \A op \in pending : op.by # p

C9_CompleteLog ==
  \A p \in Procs : Settled(p) => Logged(p) = Emitted(p)

\* the places (message, part) of the transcript that hold a part of tool call t
PartsOfTool(t) ==
  {pl \in UNION {{<< m, k >> : k \in 1..Len(messages[m].parts)} : m \in 1..Len(messages)} :
     LET part == messages[pl[1]].parts[pl[2]]
     IN "toolCallId" \in DOMAIN part /\ part.toolCallId = t}

\* C10 (ConvertSpec): when the log holds a tool-input event (the first sight
\* of its tool call) and, later, a tool-output event of the same tool call,
\* the returned transcript holds exactly one part of that call, of type
\* tool-<toolName>, with input and output populated and state
\* "output-available", whatever lies between the two events.
C10_ToolPairing ==
  returned =>
    \A a, b \in 1..Len(events) :
      ( /\ a < b
        /\ \A c \in 1..(a - 1) : toolCallIdOf(events[c]) # toolCallIdOf(events[a])
        /\ events[a].eventFamily = "tool-input"
        /\ events[b].eventFamily = "tool-output"
        /\ toolCallIdOf(events[a]) = toolCallIdOf(events[b]) )
      => /\ Cardinality(PartsOfTool(toolCallIdOf(events[a]))) = 1
         /\ \A pl \in PartsOfTool(toolCallIdOf(events[a])) :
              LET part == messages[pl[1]].parts[pl[2]]
              IN /\ part.type = toolTypeOf(events[a])
                 /\ part.input # Undefined
                 /\ part.output # Undefined
                 /\ part.state = "output-available"

\* the texts of the delta events evs[i..j], one after the other
RECURSIVE DeltaTexts(_, _, _)
DeltaTexts(evs, i, j) ==
  IF i > j THEN ""
  ELSE Get(evs[i].payload, "delta").s \o DeltaTexts(evs, i + 1, j)

SeedText(event) ==
  IF IsString(Get(event.payload, "text")) THEN Get(event.payload, "text").s ELSE ""

\* C11 (TextSpec): the log of one stream (-start, deltas, -end; one stream id,
\* one role) is reconstructed as one message with one part of the family of
\* the stream, whose text is the seed of the -start event followed by the
\* deltas in sequence order.
C11_TextRoundTrip ==
  returned =>
    /\ Len(messages) = 1
    /\ messages[1].role = events[1].role
    /\ messages[1].parts =
         << [type |-> events[1].eventFamily,
             text |-> SeedText(events[1]) \o DeltaTexts(events, 2, Len(events) - 1)] >>

\* a seeded reasoning stream of a user with the deltas a, b, a
C11_Witness ==
  /\ returned
  /\ Len(events) = MaxDeltas + 2
  /\ events[1].eventFamily = "reasoning"
  /\ events[1].role = "user"
  /\ messages[1].parts[1].text = "xaba"

\* the rows of evs in ascending sequence number
SortBySeq(evs) ==
  LET rows == {evs[i] : i \in 1..Len(evs)}
  IN [i \in 1..Len(evs) |->
        CHOOSE e \in rows : Cardinality({o \in rows : o.seq < e.seq}) = i - 1]

\* C12 (ShuffleSpec): whatever the order of the array given, the transcript
\* returned is the transcript of the rows in ascending sequence number.
C12_OrderBySeq ==
  returned => messages = convertEventsToMessages(SortBySeq(events))

\* the role segments of a log: maximal runs of events of one mapped role
MappedRole(event) == IF event.role = "user" THEN "user" ELSE "assistant"
SegmentStarts(evs) ==
  {i \in 1..Len(evs) : i = 1 \/ MappedRole(evs[i]) # MappedRole(evs[i - 1])}
SegmentEnd(evs, a) ==
  CHOOSE b \in a..Len(evs) :
    /\ \A i \in a..b : MappedRole(evs[i]) = MappedRole(evs[a])
    /\ b = Len(evs) \/ MappedRole(evs[b + 1]) # MappedRole(evs[a])
NthSegment(evs, k) ==
  CHOOSE a \in SegmentStarts(evs) :
    Cardinality({x \in SegmentStarts(evs) : x < a}) = k - 1

\* the part the handling of event i appends (<<>> when none): the text part
\* its -end completes, the tool part it sees first
PushedAt(evs, i) ==
  LET loc == loopOver(evs, i - 1)
      before == [parts |-> <<>>, acc |-> loc.streamAccumulators,
                 tools |-> loc.toolCallMap]
  IN IF evs[i].eventFamily \in {"text", "reasoning"} THEN textEvent(evs[i], before).parts
     ELSE IF evs[i].eventFamily \in {"tool-input", "tool-output"}
       THEN toolEvent(evs[i], before).parts
     ELSE <<>>

PartKey(part) ==
  IF "ref" \in DOMAIN part THEN << "tool", part.ref >>
  ELSE IF "toolCallId" \in DOMAIN part THEN << "tool", part.toolCallId >>
  ELSE << part.type, part.text >>

\* the events of the segment from a that append a part
Pushing(evs, a) == {i \in a..SegmentEnd(evs, a) : PushedAt(evs, i) # <<>>}

\* C13 (SegmentSpec): a log whose role segments are user, assistant, user,
\* each appending at least one part, gives three messages user, assistant,
\* user, each holding the parts appended in its segment and no other.
C13_Segmentation ==
  ( /\ returned
    /\ Cardinality(SegmentStarts(events)) = 3
    /\ MappedRole(events[1]) = "user"
    /\ \A a \in SegmentStarts(events) : Pushing(events, a) # {} )
    => /\ Len(messages) = 3
       /\ \A k \in 1..3 :
            LET a == NthSegment(events, k)
            IN /\ messages[k].role = MappedRole(events[a])
               /\ Len(messages[k].parts) = Cardinality(Pushing(events, a))
               /\ {PartKey(messages[k].parts[j]) : j \in 1..Len(messages[k].parts)}
                    = {PartKey(PushedAt(events, i)[1]) : i \in Pushing(events, a)}

\* user text, then a tool call of the assistant and the start of an assistant
\* text, then the user event that ends that text
C13_Witness ==
  /\ returned
  /\ Len(events) = 5
  /\ Cardinality(SegmentStarts(events)) = 3
  /\ MappedRole(events[1]) = "user"
  /\ events[3].eventFamily = "tool-input"
  /\ events[4].eventType = "text-start"
  /\ Len(messages) = 3
  /\ messages[3].parts = << [type |-> "text", text |-> ""] >>

\* C14 (ConvertSpec): every message of the transcript has at least one part,
\* and the transcript returned has one message for each role segment of the
\* log that appended a part, none for the others.
C14_NoEmptyMessage ==
  /\ \A m \in 1..Len(messages) : Len(messages[m].parts) >= 1
  /\ returned =>
       Len(messages) =
         Cardinality({a \in SegmentStarts(events) : Pushing(events, a) # {}})

\* a tool call, a user event that appends nothing, then an assistant text:
\* three segments, two messages
C14_Witness ==
  /\ returned
  /\ Cardinality(SegmentStarts(events)) = 3
  /\ Pushing(events, 2) = {}
  /\ MappedRole(events[2]) = "user"
  /\ Len(messages) = 2

\* the inserts a step dispatches
NewInserts == {op \in pending' \ pending : op.op = "insert"}

\* C15 (LogSpec): a stream that reads the chunk whose second line is a data
\* line with unparseable JSON goes on streaming, dispatches no insert for
\* that line and dispatches the inserts of the event lines before and after
\* it, with the next two sequence numbers.
C15_MalformedLineSkipped ==
  [][ \A p \in Procs :
        req'[p].input = Append(req[p].input, ChunkEvents)
        => /\ req'[p].pc = "streaming"
           /\ req'[p].output = Append(req[p].output, ChunkEvents)
           /\ {<< op.row.pos[2], op.row.seq, op.row.payload >> : op \in NewInserts}
                = { << 1, req[p].seq, JSONparse(TextDelta)[1] >>,
                    << 3, req[p].seq + 1, JSONparse(ErrorEv)[1] >> } ]_vars

\* the rows of the lines before and after the malformed line are in the table
C15_Witness ==
  \E p \in Procs :
    /\ Len(req[p].input) >= 1
    /\ req[p].input[1] = ChunkEvents
    /\ ChunkEvents[2] = "data: {oops"
    /\ \E r1, r2 \in interactionEvents :
         /\ r1.by = p /\ r1.pos = << 1, 1 >> /\ r1.eventType = "text-delta"
         /\ r2.by = p /\ r2.pos = << 1, 3 >> /\ r2.eventType = "error"
    /\ \A r \in interactionEvents : r.pos # << 1, 2 >>

\* what a stream has read: some line is the data line of the event text
HasRead(p, text) ==
  \E c \in 1..Len(req[p].input) :
    \E l \in 1..Len(req[p].input[c]) : req[p].input[c][l] = "data: " \o text

\* the stream has ended without a finish event and the status update of its
\* end is on its way to the store
EndedWithoutFinish(p) ==
  /\ req[p].pc = "closed" /\ ~HasRead(p, FinishEv)
  /\ \E op \in pending : op.op = "update" /\ op.by = p

LeftRunning(p) ==
  /\ req[p].interaction \in Runs
  /\ interactions[req[p].interaction].status # "running"

\* C16 (EndSpec): the end of a stream that has read no finish event
\* dispatches one status update, error when the stream has read an error
\* event and passed otherwise, and the Run of a stream that ended without a
\* finish event is not running once the store has served that update (a
\* later PATCH is not the matter here).
C16_EndOfStreamUpdates ==
  /\ [][ \A p \in Procs :
           (req[p].pc = "streaming" /\ req'[p].pc = "closed" /\ ~HasRead(p, FinishEv))
           => \E op \in pending' \ pending :
                /\ pending' \ pending = {op}
                /\ op.op = "update"
                /\ op.interactionId = req[p].interaction
                /\ op.status = IF HasRead(p, ErrorEv) THEN "error" ELSE "passed" ]_vars
  /\ \A p \in Procs :
       EndedWithoutFinish(p) ~> LeftRunning(p)

\* a stream that read an error event and no finish event has ended, and its
\* Run is in error
C16_Witness ==
  /\ req[1].pc = "closed"
  /\ ~HasRead(1, FinishEv)
  /\ HasRead(1, ErrorEv)
  /\ pending = {}
  /\ interactions[req[1].interaction].status = "error"

FatalMessage == "Failed to create or find interaction for browser session"

\* C17 (Spec): a request whose insert met the unique violation and whose
\* second lookup finds no running Run of its browser session is answered
\* 500 with the error message; it holds no Run, no Run is created by the
\* step and no stream is opened for it.
C17_FatalInconsistency ==
  /\ [][ \A p \in Procs :
           ( /\ req[p].pc = "fallback"
             /\ RunningFor(req[p].browserId) = {}
             /\ req'[p] # req[p] )
           => /\ req'[p].pc = "failed"
              /\ req'[p].response = 500
              /\ req'[p].error = FatalMessage
              /\ interactions' = interactions
              /\ pending' = pending ]_vars
  /\ [](\A p \in Procs :
          req[p].error = FatalMessage
          => /\ req[p].pc = "failed"
             /\ req[p].interaction = NoInteraction
             /\ req[p].logger = ""
             /\ req[p].input = <<>> /\ req[p].output = <<>>)

\* the loser of the insert race was answered with that error: the Run of the
\* winner had been canceled before the second lookup
C17_Witness ==
  \E p, q \in Procs :
    /\ req[p].error = FatalMessage
    /\ req[q].found = "created"
    /\ req[q].browserId = req[p].browserId
    /\ interactions[req[q].interaction].status = "canceled"

FamilyRules ==
  << [exact |-> {"start", "finish"}, prefix |-> {}, inside |-> {}, family |-> "lifecycle"],
     [exact |-> {}, prefix |-> {"text-"}, inside |-> {}, family |-> "text"],
     [exact |-> {}, prefix |-> {"reasoning-"}, inside |-> {}, family |-> "reasoning"],
     [exact |-> {}, prefix |-> {"tool-input-"}, inside |-> {}, family |-> "tool-input"],
     [exact |-> {}, prefix |-> {"tool-output-"}, inside |-> {}, family |-> "tool-output"],
     [exact |-> {}, prefix |-> {"data-"}, inside |-> {}, family |-> "data"],
     [exact |-> {}, prefix |-> {}, inside |-> {"error"}, family |-> "error"] >>

RuleMatches(rule, type) ==
  \/ type \in rule.exact
  \/ \E pre \in rule.prefix : StartsWith(type, pre)
  \/ \E sub \in rule.inside : Includes(type, sub)

FirstRuleFamily(type) ==
  IF \E k \in 1..Len(FamilyRules) : RuleMatches(FamilyRules[k], type)
    THEN LET k == CHOOSE k \in 1..Len(FamilyRules) :
                    /\ RuleMatches(FamilyRules[k], type)
                    /\ \A j \in 1..(k - 1) : ~RuleMatches(FamilyRules[j], type)
         IN FamilyRules[k].family
    ELSE "data"

Normalized == canonical # <<>> /\ canonical[1] # <<>>

\* C19 (NormalizeSpec): the family of a canonical record is that of the first
\* rule its event type matches, in the order lifecycle, text, reasoning,
\* tool-input, tool-output, data, error, and data when none matches.
C19_FamilyPriority ==
  Normalized =>
    canonical[1][1].eventFamily = FirstRuleFamily(canonical[1][1].eventType)

\* a type with the prefix tool-output- that contains "error" came out as
\* tool-output
C19_Witness ==
  /\ Normalized
  /\ canonical[1][1].eventType = "tool-output-error"
  /\ canonical[1][1].eventFamily = "tool-output"

\* C20 (NormalizeSpec): for an object normalizeEvent returns one canonical
\* record whose payload is the object given and whose event type is its
\* string type, or "unknown" with family data when it has none; for null, an
\* array, a string, a number or a boolean it returns nothing.
C20_NormalizerTotal ==
  canonical # <<>> =>
    IF rawEvent.ty = "object"
      THEN /\ Len(canonical[1]) = 1
           /\ canonical[1][1].payload = rawEvent
           /\ IF "type" \in DOMAIN rawEvent.o /\ rawEvent.o.type.ty = "string"
                THEN canonical[1][1].eventType = rawEvent.o.type.s
                ELSE /\ canonical[1][1].eventType = "unknown"
                     /\ canonical[1][1].eventFamily = "data"
           /\ canonical[1][1].role \in {"system", "user", "assistant", "tool"}
           /\ canonical[1][1].streamId.ty \in {"string", "null"}
      ELSE canonical[1] = <<>>

\* an object whose type is a number came out as an "unknown" data event of
\* the assistant
C20_Witness ==
  /\ Normalized
  /\ rawEvent = Obj([type |-> JNum(1)])
  /\ canonical[1][1].eventType = "unknown"
  /\ canonical[1][1].role = "assistant"

\* C21 (Spec): a request whose agent response has no body is answered 500
\* with that error; no logging transform was attached for it, it has read
\* and forwarded nothing, counted no event, and no insert or status update
\* of it is in the store or on its way there.
C21_NoBodyNoLogging ==
  \A p \in Procs :
    req[p].error = "Response body is null"
    => /\ req[p].pc = "failed"
       /\ req[p].response = 500
       /\ req[p].logger = ""
       /\ req[p].input = <<>> /\ req[p].output = <<>>
       /\ req[p].seq = 0 /\ req[p].updates = 0
       /\ \A op \in pending : op.by # p
       /\ \A row \in interactionEvents : row.by # p

\* the request that created the Run got no body; the Run is still running
C21_Witness ==
  \E p \in Procs :
    /\ req[p].error = "Response body is null"
    /\ req[p].found = "created"
    /\ interactions[req[p].interaction].status = "running"

\* the lines of the chunks a stream has read, in the order the logger saw them
RECURSIVE LinesOf(_)
LinesOf(chunks) ==
  IF chunks = <<>> THEN <<>> ELSE chunks[1] \o LinesOf(Tail(chunks))

FinishLines(lines) == {i \in 1..Len(lines) : lines[i] = "data: " \o FinishEv}

\* an error event was observed before the n-th status update of a stream
\* that has read lines: before its n-th finish event or, when it has fewer,
\* before its end
ErrorBeforeUpdate(lines, n) ==
  LET upTo == IF n <= Cardinality(FinishLines(lines))
                THEN CHOOSE i \in FinishLines(lines) :
                       Cardinality({j \in FinishLines(lines) : j < i}) = n - 1
                ELSE Len(lines) + 1
  IN \E j \in 1..(upTo - 1) : lines[j] = "data: " \o ErrorEv

\* C22 (StatusSpec): every status update a stream dispatches says error when
\* the stream has observed an event of family error before it and passed
\* otherwise, and hasError never goes back to false.
C22_TerminalStatus ==
  [][ /\ \A op \in pending' \ pending :
           op.op = "update"
           => op.status = IF ErrorBeforeUpdate(LinesOf(req'[op.by].input), op.n)
                            THEN "error" ELSE "passed"
      /\ \A p \in Procs : req[p].hasError => req'[p].hasError ]_vars

\* error then finish in one chunk: the update of the finish said error
C22_Witness ==
  /\ Len(req[1].input) = 1
  /\ req[1].input[1][1] = "data: " \o ErrorEv
  /\ req[1].input[1][2] = "data: " \o FinishEv
  /\ req[1].hasError
  /\ interactions[req[1].interaction].status = "error"

\* the insert the store serves in this step holds a (Run, seq) already in the
\* table
Collides(op) ==
  /\ op \in pending /\ op \notin pending' /\ op.op = "insert"
  /\ \E r \in interactionEvents :
       r.interactionId = op.row.interactionId /\ r.seq = op.row.seq

\* C23 (LogSpec): with two streams writing to one Run, a row once in the
\* table stays as it is, the table never holds two rows of one (Run, seq),
\* and serving an insert whose (Run, seq) is taken changes neither the table
\* nor any stream (what was read and forwarded, its counters): the write is
\* dropped and nothing else happens.
C23_CollisionDropped ==
  /\ [][ /\ \A r \in interactionEvents : r \in interactionEvents'
         /\ \A op \in pending :
              Collides(op) => /\ interactionEvents' = interactionEvents
                              /\ req' = req
                              /\ interactions' = interactions ]_vars
  /\ [](\A r1, r2 \in interactionEvents :
          (r1.interactionId = r2.interactionId /\ r1.seq = r2.seq) => r1 = r2)
  /\ [](\A p \in Procs : req[p].output = req[p].input)

\* two streams on one Run: the row with seq 0 is the first stream's, the
\* second stream's insert with seq 0 was served and dropped, and both streams
\* have forwarded what they read
C23_Witness ==
  \E p, q \in Procs :
    /\ p # q
    /\ req[p].interaction = req[q].interaction
    /\ req[p].seq >= 1 /\ req[q].seq >= 1
    /\ \E r \in interactionEvents : r.by = p /\ r.seq = 0
    /\ \A r \in interactionEvents : r.by # q
    /\ \A op \in pending : op.by # q
    /\ req[q].output = req[q].input /\ req[q].input # <<>>

\* the events a stream has observed: the lines it read that parse to an object
Observed(p) ==
  {i \in 1..Len(LinesOf(req[p].input)) :
     /\ Truthy(parseSSELine(LinesOf(req[p].input)[i]))
     /\ normalizeEvent(parseSSELine(LinesOf(req[p].input)[i])) # <<>>}

\* C24 (LogSpec): when an insert leaves the store without its row (it failed
\* or was rejected), nothing else changes: it is not dispatched again, no
\* stream changes state, the table and the Runs stay as they are; and the
\* counter of a stream is the number of events it has observed, whatever
\* became of their inserts, so the events after a failed one keep their own
\* numbers.
C24_FailureIsolated ==
  /\ [][ \A op \in pending :
           (op.op = "insert" /\ op \notin pending' /\ op.row \notin interactionEvents')
           => /\ pending' = pending \ {op}
              /\ req' = req
              /\ interactionEvents' = interactionEvents
              /\ interactions' = interactions ]_vars
  /\ [](\A p \in Procs :
          /\ req[p].seq = Cardinality(Observed(p))
          /\ req[p].output = req[p].input)

\* the insert of the first event of a stream failed; the stream went on, and
\* its second event is in the table with seq 1
C24_Witness ==
  \E p \in Procs :
    /\ req[p].pc = "closed"
    /\ req[p].seq = 2
    /\ \A q \in Procs \ {p} : req[q].interaction # req[p].interaction
    /\ \A op \in pending : op.by # p
    /\ {r.seq : r \in {x \in interactionEvents : x.by = p}} = {1}

\* C25 (LogSpec): the step in which a stream reads a chunk forwards it, and
\* the inserts and updates of the events of that chunk are all still on
\* their way to the store when it is forwarded: none has been served, the
\* table and the Runs are as before.
C25_ForwardWithoutWaiting ==
  [][ \A p \in Procs :
        Len(req'[p].input) = Len(req[p].input) + 1
        => /\ req'[p].output = Append(req[p].output, req'[p].input[Len(req'[p].input)])
           /\ pending \subseteq pending'
           /\ Cardinality({op \in pending' \ pending : op.op = "insert"})
                = req'[p].seq - req[p].seq
           /\ Cardinality({op \in pending' \ pending : op.op = "update"})
                = req'[p].updates - req[p].updates
           /\ interactionEvents' = interactionEvents
           /\ interactions' = interactions ]_vars

\* a stream has forwarded two chunks and ended while every insert and update
\* it dispatched is still pending
C25_Witness ==
  \E p \in Procs :
    /\ req[p].pc = "closed"
    /\ Len(req[p].output) = 2
    /\ req[p].seq >= 2
    /\ Cardinality({op \in pending : op.by = p /\ op.op = "insert"}) = req[p].seq
    /\ Cardinality({op \in pending : op.by = p /\ op.op = "update"}) = req[p].updates
    /\ \A r \in interactionEvents : r.by # p

\* the lines of a chunk that are the data line of an event
EventLines(chunk) ==
  {l \in 1..Len(chunk) :
     chunk[l] = "data: " \o TextDelta \/ chunk[l] = "data: " \o ErrorEv}

\* C26 (SentinelSpec): reading a chunk counts and inserts the events of its
\* data lines only: a data: [DONE] line and a line that does not start with
\* "data: " give no insert, take no sequence number, leave hasError as it
\* was and dispatch no status update.
C26_SentinelIgnored ==
  [][ \A p \in Procs :
        Len(req'[p].input) = Len(req[p].input) + 1
        => LET chunk == req'[p].input[Len(req'[p].input)]
           IN /\ req'[p].seq = req[p].seq + Cardinality(EventLines(chunk))
              /\ {op.row.pos[2] : op \in {o \in pending' \ pending : o.op = "insert"}}
                   = EventLines(chunk)
              /\ \A op \in pending' \ pending : op.op = "insert"
              /\ req'[p].updates = req[p].updates
              /\ req'[p].isFinished = req[p].isFinished
              /\ req'[p].hasError
                   = (req[p].hasError
                        \/ \E l \in 1..Len(chunk) : chunk[l] = "data: " \o ErrorEv)
              /\ req'[p].pc = "streaming" ]_vars

\* a stream has read the chunk that is only the sentinel and the chunk of
\* comment and field lines; it has counted no event and dispatched nothing
C26_Witness ==
  /\ req[1].pc = "streaming"
  /\ Len(req[1].input) = 2
  /\ req[1].input[1][1] = "data: [DONE]"
  /\ req[1].input[2][1] = ": ping"
  /\ req[1].seq = 0 /\ ~req[1].hasError /\ req[1].updates = 0
  /\ pending = {} /\ interactionEvents = {}
  /\ interactions[req[1].interaction].status = "running"

\* C27 (Spec): a request comes to the insert of a Run only from a lookup that
\* found no running Run of its browser session, and a Run row is added only
\* by such a request; a lookup that finds a running Run hands that Run to
\* the request and leaves every Run row as it was.
C27_CreateOnlyWhenNoneRunning ==
  [][ /\ \A p \in Procs :
           /\ (req'[p].pc = "insert" /\ req[p].pc # "insert")
                => /\ req[p].pc = "select"
                   /\ RunningFor(req[p].browserId) = {}
           /\ (req[p].pc = "select" /\ req'[p] # req[p]
                 /\ RunningFor(req[p].browserId) # {})
                => /\ req'[p].pc = "agent"
                   /\ req'[p].found = "reused"
                   /\ req'[p].interaction \in RunningFor(req[p].browserId)
                   /\ interactions' = interactions
                   /\ pending' = pending
      /\ Len(interactions') > Len(interactions)
           => \E p \in Procs :
                /\ req[p].pc = "insert"
                /\ req'[p].found = "created"
                /\ interactions' = Append(interactions, NewRun(req[p].browserId))
                /\ req'[p].interaction = Len(interactions') ]_vars

\* a second request of a browser session was handed the Run the first one
\* created: the session has one Run row, still running
C27_Witness ==
  \E p, q \in Procs :
    /\ req[p].found = "created"
    /\ req[q].found = "reused"
    /\ req[q].interaction = req[p].interaction
    /\ Len(interactions) = 1
    /\ interactions[1].status = "running"

\* C28 (Spec): a request whose insert of a Run failed with an error of the
\* store other than the unique violation is answered with that error at
\* once: it makes no second lookup and it never holds a Run.
C28_OtherErrorsPropagate ==
  /\ [][ \A p \in Procs :
           (req[p].pc = "insert" /\ req'[p].caught \in StoreErrors)
           => /\ req'[p].pc = "failed"
              /\ req'[p].response = 500
              /\ req'[p].error = req'[p].caught ]_vars
  /\ [](\A p \in Procs :
          req[p].caught \in StoreErrors
          => /\ req[p].pc = "failed"
             /\ req[p].error = req[p].caught
             /\ req[p].interaction = NoInteraction
             /\ req[p].found = "")

\* the parts of the open message as the event at the cursor finds them
PartsBefore ==
  IF currentMessage = <<>>
       \/ currentMessage[1].role # (IF events[cursor].role = "user" THEN "user" ELSE "assistant")
    THEN <<>> ELSE currentMessage[1].parts

\* C29 (AnomalySpec): the loop is never stuck before it returns; a -delta or
\* -end event whose stream id has no open accumulator adds no part and
\* changes no accumulator and no tool entry; a tool-output event whose
\* correlation id has no entry yet appends one part whose output is the
\* output of the event and whose state is "output-available".
C29_AnomaliesNeverFail ==
  /\ [](~returned => ENABLED (ConvertStep \/ ConvertReturn))
  /\ [][ (~returned /\ cursor <= Len(events))
         => LET event == events[cursor]
            IN /\ ( /\ event.eventFamily \in {"text", "reasoning"}
                    /\ \/ EndsWith(event.eventType, "-delta")
                       \/ EndsWith(event.eventType, "-end")
                    /\ idOr(event, event.eventFamily) \notin DOMAIN streamAccumulators )
                  => /\ currentMessage'[1].parts = PartsBefore
                     /\ streamAccumulators' = streamAccumulators
                     /\ toolCallMap' = toolCallMap
               /\ ( /\ event.eventFamily = "tool-output"
                    /\ toolCallIdOf(event) \notin DOMAIN toolCallMap )
                  => /\ currentMessage'[1].parts
                          = Append(PartsBefore, [ref |-> toolCallIdOf(event)])
                     /\ DOMAIN toolCallMap' = DOMAIN toolCallMap \cup {toolCallIdOf(event)}
                     /\ toolCallMap'[toolCallIdOf(event)].output = Get(event.payload, "output")
                     /\ toolCallMap'[toolCallIdOf(event)].state = "output-available"
                     /\ toolCallMap'[toolCallIdOf(event)].input = Undefined ]_vars

\* the role of a message for the role of an event, as the claim gives it
FoldedRole(role) == IF role = "user" THEN "user" ELSE "assistant"

\* C30 (RoleSpec): after an event is read the open message has the role
\* user for an event of role user and assistant for an event of role
\* assistant, tool or system; the event opens a new message (one that
\* starts at its sequence number, with the message before pushed if it has
\* parts) exactly when no message is open or the open one has another role,
\* and otherwise the open message goes on; so an event of role assistant,
\* tool or system that follows one of these roles opens no message.
C30_RoleFolding ==
  [][ (~returned /\ cursor <= Len(events))
      => LET event == events[cursor]
             opens == currentMessage = <<>>
                        \/ currentMessage[1].role # FoldedRole(event.role)
         IN /\ event.role \in {"user", "assistant", "tool", "system"}
            /\ currentMessage'[1].role = FoldedRole(event.role)
            /\ opens => /\ currentMessage'[1].firstSeq = event.seq
                        /\ currentMessage'[1].id = idOr(event, "msg")
                        /\ messages' = pushMessage(messages, currentMessage, toolCallMap)
            /\ ~opens => /\ currentMessage'[1].firstSeq = currentMessage[1].firstSeq
                         /\ currentMessage'[1].id = currentMessage[1].id
                         /\ messages' = messages
            /\ ( /\ cursor > 1
                 /\ events[cursor - 1].role # "user"
                 /\ event.role # "user" )
               => /\ currentMessage # <<>>
                  /\ currentMessage'[1].firstSeq = currentMessage[1].firstSeq
                  /\ messages' = messages ]_vars

\* events of roles assistant, tool and system were read into one message,
\* which was closed by an event of role user
C30_Witness ==
  /\ returned
  /\ Len(events) = 4
  /\ events[1].role = "assistant" /\ events[2].role = "tool"
  /\ events[3].role = "system" /\ events[4].role = "user"
  /\ Len(messages) = 1
  /\ messages[1].role = "assistant"
  /\ Len(messages[1].parts) = 2
  /\ currentMessage[1].role = "user" /\ currentMessage[1].firstSeq = 3

\* the parts of the open message with the tool entries they point to
RawParts ==
  [i \in 1..Len(currentMessage[1].parts) |-> Deref(currentMessage[1].parts[i], toolCallMap)]

\* order is the order of a stable sort of parts by partSeq
StableOrder(parts, order) ==
  \A i, j \in 1..Len(parts) :
    i < j => \/ parts[order[i]].partSeq < parts[order[j]].partSeq
             \/ /\ parts[order[i]].partSeq = parts[order[j]].partSeq
                /\ order[i] < order[j]

\* the key of a text or reasoning part is the seq of a -start event of its
\* family, the key of a tool part the seq of the first event of its tool call
KeyAsRecorded(part) ==
  /\ part.partSeq \in 0..(Len(events) - 1)
  /\ LET event == events[part.partSeq + 1]
     IN IF "text" \in DOMAIN part
          THEN event.eventFamily = part.type /\ EndsWith(event.eventType, "-start")
          ELSE /\ event.eventFamily \in {"tool-input", "tool-output"}
               /\ toolCallIdOf(event) = part.toolCallId
               /\ \A k \in 1..part.partSeq :
                    events[k].eventFamily \in {"tool-input", "tool-output"}
                    => toolCallIdOf(events[k]) # part.toolCallId

\* C31 (ConvertSpec): the parts of a message that is pushed are the parts of
\* the open message in the order of a stable sort by their key, each
\* without the key; the key of a part of the open message is the seq of the
\* -start event (text, reasoning) or of the first event of the tool call.
C31_PartsOrderedOnClose ==
  /\ [](currentMessage # <<>> =>
          \A i \in 1..Len(currentMessage[1].parts) : KeyAsRecorded(RawParts[i]))
  /\ [][ Len(messages') = Len(messages) + 1
         => LET m == messages'[Len(messages')]
            IN /\ SubSeq(messages', 1, Len(messages)) = messages
               /\ Len(m.parts) = Len(RawParts)
               /\ \A i \in 1..Len(m.parts) : "partSeq" \notin DOMAIN m.parts[i]
               /\ \E order \in Permutations(1..Len(RawParts)) :
                    /\ StableOrder(RawParts, order)
                    /\ \A i \in 1..Len(m.parts) :
                         m.parts[i] = cleanPart(RawParts[order[i]]) ]_vars

\* a tool call was seen between the start and the end of a text: the text
\* was appended after the tool part and is emitted before it
C31_Witness ==
  /\ returned
  /\ Len(events) = 3
  /\ events[1].eventType = "text-start"
  /\ events[2].eventFamily = "tool-input"
  /\ events[3].eventType = "text-end"
  /\ IsToolRef(currentMessage[1].parts[1])
  /\ Len(messages) = 1
  /\ messages[1].parts[1].type = "text"
  /\ messages[1].parts[2].type = "tool-search"

\* C32 (ShuffleSpec): a tool-input event whose correlation id has an entry
\* replaces the input of the entry and lowers its key to the seq of the
\* event if that is smaller; type, output and state of the entry, every
\* other entry, the accumulators and the parts of the message stay.
C32_RepeatedToolInput ==
  [][ (~returned /\ cursor <= Len(events))
      => LET event == events[cursor]
             id == toolCallIdOf(event)
         IN ( /\ event.eventFamily = "tool-input"
              /\ id \in DOMAIN toolCallMap )
            => /\ DOMAIN toolCallMap' = DOMAIN toolCallMap
               /\ \A k \in DOMAIN toolCallMap \ {id} : toolCallMap'[k] = toolCallMap[k]
               /\ toolCallMap'[id].input = event.payload
               /\ toolCallMap'[id].partSeq
                    = IF event.seq < toolCallMap[id].partSeq
                        THEN event.seq ELSE toolCallMap[id].partSeq
               /\ toolCallMap'[id].type = toolCallMap[id].type
               /\ toolCallMap'[id].toolCallId = toolCallMap[id].toolCallId
               /\ toolCallMap'[id].output = toolCallMap[id].output
               /\ toolCallMap'[id].state = toolCallMap[id].state
               /\ currentMessage'[1].parts = PartsBefore
               /\ streamAccumulators' = streamAccumulators ]_vars

\* the tool-input of a call was read after its tool-output and has the
\* smaller seq: one part, of the type and state the output gave it, with
\* the input and the key of the tool-input
C32_Witness ==
  /\ returned
  /\ Len(events) = 2
  /\ events[1].eventFamily = "tool-output" /\ events[1].seq = 1
  /\ events[2].eventFamily = "tool-input" /\ events[2].seq = 0
  /\ toolCallMap["t1"].partSeq = 0
  /\ toolCallMap["t1"].state = "output-available"
  /\ toolCallMap["t1"].type = "tool-unknown"
  /\ toolCallMap["t1"].input = events[2].payload
  /\ Len(messages) = 1 /\ Len(messages[1].parts) = 1

\* the role a spelling stands for, "" for a string that is no role
RoleSpelled(str) ==
  CASE str \in {"user", "USER"} -> "user"
    [] str \in {"System"} -> "system"
    [] str \in {"tool"} -> "tool"
    [] str \in {"Assistant"} -> "assistant"
    [] OTHER -> ""

\* the field of an event that is an object, Undefined otherwise
FieldOf(event, f) ==
  IF event.ty = "object" /\ f \in DOMAIN event.o THEN event.o[f] ELSE Undefined

\* C33 (FieldSpec): inferRole returns the explicit role of the event when it
\* is a string that spells system, user, assistant or tool in any case;
\* otherwise tool when the type of the event is a string that starts with
\* "tool-", and assistant in every other case.
C33_RoleDerivation ==
  (canonical # <<>> /\ canonical[1].call = "inferRole")
  => LET role == FieldOf(rawEvent, "role")
         type == FieldOf(rawEvent, "type")
     IN canonical[1].value
          = IF role.ty = "string" /\ RoleSpelled(role.s) # ""
              THEN RoleSpelled(role.s)
            ELSE IF type \in {S("tool-input-start"), S("tool-")}
              THEN "tool"
            ELSE "assistant"

\* a text event with the explicit role USER was given the role user
C33_Witness ==
  /\ canonical # <<>>
  /\ canonical[1].call = "inferRole"
  /\ FieldOf(rawEvent, "role") = S("USER")
  /\ FieldOf(rawEvent, "type") = S("tool-input-start")
  /\ canonical[1].value = "user"

\* the fields extractStreamId reads, in the order of the claim
IdFields == << "id", "toolCallId", "messageId" >>

\* C34 (FieldSpec): extractStreamId returns the id of the event if it is a
\* string, else its toolCallId if that is a string, else its messageId if
\* that is a string (a field that is there but no string is passed over),
\* and null when none of the three is a string.
C34_StreamIdDerivation ==
  (canonical # <<>> /\ canonical[1].call = "extractStreamId")
  => LET strings == {i \in 1..3 : FieldOf(rawEvent, IdFields[i]).ty = "string"}
     IN IF strings = {}
          THEN canonical[1].value = JNull
          ELSE \E i \in strings :
                 /\ \A j \in strings : i <= j
                 /\ canonical[1].value = FieldOf(rawEvent, IdFields[i])

\* the id of the event is a number and its toolCallId a string: the
\* toolCallId was returned
C34_Witness ==
  /\ canonical # <<>>
  /\ canonical[1].call = "extractStreamId"
  /\ FieldOf(rawEvent, "id") = JNum(1)
  /\ FieldOf(rawEvent, "toolCallId") = S("b")
  /\ FieldOf(rawEvent, "messageId") = S("c")
  /\ canonical[1].value = S("b")

\* the lines of the agent stream that carry an event (an object)
IsEventLine(line) ==
  line \in {"data: " \o TextDelta, "data: " \o ErrorEv, "data: " \o FinishEv}

\* the number of event lines a stream has read before line l of its chunk c
EventsBefore(p, c, l) ==
  Cardinality({pos \in UNION {{<< i, j >> : j \in 1..Len(req[p].input[i])} :
                                 i \in 1..Len(req[p].input)} :
                 /\ IsEventLine(req[p].input[pos[1]][pos[2]])
                 /\ (pos[1] < c \/ (pos[1] = c /\ pos[2] < l))})

\* C35 (LogSpec): the inserts a stream dispatches for a chunk are one for
\* each event line of the chunk and none for any other line; the seq of an
\* insert, while it is pending and when its row is in the table, is the
\* number of event lines the stream read before its line, so the numbers
\* are 0, 1, 2, ... in the order of the lines whatever became of the
\* inserts before; an insert that fails leaves the counter as it is.
C35_SeqDense ==
  /\ [][ \A p \in Procs :
           /\ Len(req'[p].input) = Len(req[p].input) + 1
              => LET c == Len(req'[p].input)
                     chunk == req'[p].input[c]
                     new == {op \in pending' \ pending : op.op = "insert"}
                 IN /\ {op.row.pos : op \in new}
                         = {<< c, l >> : l \in {k \in 1..Len(chunk) : IsEventLine(chunk[k])}}
                    /\ \A op \in new : op.by = p
                    /\ {op.row.seq : op \in new} = req[p].seq..(req'[p].seq - 1)
                    /\ Cardinality(new) = req'[p].seq - req[p].seq
           /\ Len(req'[p].input) = Len(req[p].input) => req'[p].seq = req[p].seq ]_vars
  /\ [](\A p \in Procs :
          /\ \A op \in pending :
               (op.op = "insert" /\ op.by = p)
               => op.row.seq = EventsBefore(p, op.row.pos[1], op.row.pos[2])
          /\ \A row \in interactionEvents :
               row.by = p => row.seq = EventsBefore(p, row.pos[1], row.pos[2]))

\* the insert of the first event of a stream failed; its second event is in
\* the table with seq 1 (a line that does not parse lies between them) and
\* the finish event of its next chunk is dispatched with seq 2
C35_Witness ==
  \E p \in Procs :
    /\ Len(req[p].input) = 2
    /\ req[p].input[1][2] = "data: {oops"
    /\ req[p].input[2][1] = "data: " \o FinishEv
    /\ req[p].seq = 3
    /\ {r.seq : r \in {x \in interactionEvents : x.by = p}} = {1}
    /\ {op.row.seq : op \in {o \in pending : o.op = "insert" /\ o.by = p}} = {2}

\* the stream of wrapStreamWithLogging has dispatched its terminal update
WrapFinished(p) == req[p].logger = "wrap" /\ req[p].isFinished

\* C36 (StatusSpec): once the logger of wrapStreamWithLogging has dispatched
\* its terminal update it dispatches no other, whatever it reads and when
\* the stream ends; an event it reads afterwards is still inserted; and the
\* status of its Run, once written, is the one computed at that update
\* (error if an error event came before it, passed otherwise) and stays.
C36_NothingAfterTerminal ==
  /\ [][ \A p \in Procs :
           WrapFinished(p)
           => /\ \A op \in pending' \ pending : op.op = "insert"
              /\ req'[p].updates = req[p].updates
              /\ req'[p].isFinished
              /\ Len(req'[p].input) = Len(req[p].input) + 1
                 => LET c == Len(req'[p].input)
                    IN {op.row.pos : op \in pending' \ pending}
                         = {<< c, l >> : l \in {k \in 1..Len(req'[p].input[c]) :
                                                  IsEventLine(req'[p].input[c][k])}}
              /\ interactions[req[p].interaction].status # "running"
                 => interactions' = interactions ]_vars
  /\ [](\A p \in Procs :
          (WrapFinished(p) /\ interactions[req[p].interaction].status # "running")
          => interactions[req[p].interaction].status
               = IF ErrorBeforeUpdate(LinesOf(req[p].input), 1) THEN "error" ELSE "passed")

\* the stream read finish and then an error event and ended: the error
\* event is in the table and the Run is passed
C36_Witness ==
  /\ req[1].logger = "wrap"
  /\ req[1].pc = "closed"
  /\ req[1].input = << << "data: " \o FinishEv, "data: " \o ErrorEv, "" >> >>
  /\ req[1].hasError
  /\ pending = {}
  /\ \E row \in interactionEvents : row.eventFamily = "error" /\ row.seq = 1
  /\ interactions[req[1].interaction].status = "passed"

\* C37 (LogSpec): every operation a stream dispatches is an insert of an
\* Event row of its own Run or an update of the status and finished-at of
\* its own Run; serving an insert adds at most its row and changes no Run;
\* serving an update changes status and finished-at of the Run it names and
\* nothing else; no step removes or changes a row of the Event table.
C37_WritesConfined ==
  [][ /\ \A op \in pending' \ pending :
           /\ req[op.by].pc = "streaming"
           /\ req[op.by].interaction \in Runs
           /\ op.op = "insert"
              => op.row.interactionId = req[op.by].interaction
           /\ op.op = "update"
              => /\ op.interactionId = req[op.by].interaction
                 /\ DOMAIN op = {"op", "by", "n", "interactionId", "status", "finishedAt"}
      /\ interactionEvents \subseteq interactionEvents'
      /\ \A op \in pending \ pending' :
           /\ op.op = "insert"
              => /\ interactionEvents' \subseteq interactionEvents \cup {op.row}
                 /\ interactions' = interactions
           /\ op.op = "update"
              => /\ interactionEvents' = interactionEvents
                 /\ Len(interactions') = Len(interactions)
                 /\ \A i \in Runs :
                      IF i = op.interactionId
                        THEN interactions'[i].browserId = interactions[i].browserId
                        ELSE interactions'[i] = interactions[i]
      /\ pending \subseteq pending'
           => /\ interactionEvents' = interactionEvents
              /\ SubSeq(interactions', 1, Len(interactions)) = interactions ]_vars

\* a second Run of the browser session is being logged after the first one
\* ended: the first is passed with its rows, the second is running with its
\* own
C37_Witness ==
  \E p, q \in Procs :
    /\ req[p].interaction = 1 /\ req[q].interaction = 2
    /\ interactions[1].status = "passed"
    /\ interactions[2].status = "running"
    /\ req[q].pc = "streaming" /\ req[q].seq > 0
    /\ \E row \in interactionEvents : row.interactionId = 1 /\ row.by = p
    /\ \E row \in interactionEvents : row.interactionId = 2 /\ row.by = q

\* the places of the transcript, pushed messages and the open one, where a
\* part of the tool call id stands
PartsOfCall(id) ==
  {<< m, i >> \in UNION {{<< k, j >> : j \in 1..Len(messages[k].parts)} :
                           k \in 1..Len(messages)} :
     /\ "toolCallId" \in DOMAIN messages[m].parts[i]
     /\ messages[m].parts[i].toolCallId = id}
    \cup (IF returned \/ currentMessage = <<>> THEN {}
          ELSE {<< 0, i >> : i \in {j \in 1..Len(currentMessage[1].parts) :
                                      /\ IsToolRef(currentMessage[1].parts[j])
                                      /\ currentMessage[1].parts[j].ref = id}})

\* the tool call ids of the events read so far
CallsRead ==
  {toolCallIdOf(events[k]) :
     k \in {j \in 1..(cursor - 1) :
              events[j].eventFamily \in {"tool-input", "tool-output"}}}

\* C38 (ConvertSpec): at every point of the reconstruction, and in the
\* transcript it returns, a tool call whose events were read has exactly
\* one part, in one message, however many tool-input and tool-output
\* events of the call were read and in whatever messages; and there is no
\* part of a call that was not read.
C38_OnePartPerCall ==
  /\ \A id \in CallsRead : Cardinality(PartsOfCall(id)) = 1
  /\ \A m \in 1..Len(messages) : \A i \in 1..Len(messages[m].parts) :
       "toolCallId" \in DOMAIN messages[m].parts[i]
       => messages[m].parts[i].toolCallId \in CallsRead

\* the input of a call, a user event, the output of the call and its input
\* again: the transcript has one part of the call, in the first message
C38_Witness ==
  /\ returned
  /\ Len(events) = 4
  /\ events[1].eventFamily = "tool-input"
  /\ events[2].role = "user"
  /\ events[3].eventFamily = "tool-output"
  /\ events[4].eventFamily = "tool-input"
  /\ PartsOfCall("t1") = {<< 1, 1 >>}

\* C39 (ConvertSpec): an open accumulator holds the seq of a -start event of
\* its stream id that was read, and is left as it is by every event that is
\* not of its stream id, also by one that opens a new message; the -end
\* event of its stream id appends its part, with that seq as key, to the
\* message that is open after the -end event was read (the message the
\* -end event opened, if it opened one) and closes the accumulator.
C39_AccumulatorsOutliveMessages ==
  /\ [](\A id \in DOMAIN streamAccumulators :
          LET seq == streamAccumulators[id].partSeq
          IN /\ seq + 1 < cursor
             /\ EndsWith(events[seq + 1].eventType, "-start")
             /\ idOr(events[seq + 1], events[seq + 1].eventFamily) = id)
  /\ [][ (~returned /\ cursor <= Len(events))
         => LET event == events[cursor]
                own == IF event.eventFamily \in {"text", "reasoning"}
                         THEN {idOr(event, event.eventFamily)} ELSE {}
            IN /\ \A id \in DOMAIN streamAccumulators \ own :
                    /\ id \in DOMAIN streamAccumulators'
                    /\ streamAccumulators'[id] = streamAccumulators[id]
               /\ \A id \in own \cap DOMAIN streamAccumulators :
                    EndsWith(event.eventType, "-end")
                    => /\ currentMessage'[1].role = FoldedRole(event.role)
                       /\ currentMessage'[1].parts
                            = Append(PartsBefore,
                                     [type |-> streamAccumulators[id].type,
                                      text |-> streamAccumulators[id].text,
                                      partSeq |-> streamAccumulators[id].partSeq])
                       /\ id \notin DOMAIN streamAccumulators' ]_vars

\* a text started in an assistant message that was left without parts; a
\* user event and a tool call came; its -end was read in the assistant
\* message of the tool call, where its part stands first
C39_Witness ==
  /\ returned
  /\ Len(events) = 4
  /\ events[1].eventType = "text-start"
  /\ events[2].role = "user"
  /\ events[3].eventFamily = "tool-input"
  /\ events[4].eventType = "text-end"
  /\ currentMessage[1].firstSeq = 2
  /\ Len(messages) = 1
  /\ messages[1].role = "assistant"
  /\ messages[1].parts[1] = [type |-> "text", text |-> ""]
  /\ messages[1].parts[2].type = "tool-search"

\* the places of the transcript, pushed messages and the open one, where a
\* text or reasoning part stands
TextPartsOut ==
  {<< m, i >> \in UNION {{<< k, j >> : j \in 1..Len(messages[k].parts)} :
                           k \in 1..Len(messages)} :
     messages[m].parts[i].type \in {"text", "reasoning"}}
    \cup (IF returned \/ currentMessage = <<>> THEN {}
          ELSE {<< 0, i >> : i \in {j \in 1..Len(currentMessage[1].parts) :
                                      ~IsToolRef(currentMessage[1].parts[j])}})

\* the -end events of text and reasoning read so far
EndsRead ==
  {k \in 1..(cursor - 1) :
     /\ events[k].eventFamily \in {"text", "reasoning"}
     /\ EndsWith(events[k].eventType, "-end")}

\* C40 (ConvertSpec): the transcript never has more text and reasoning
\* parts than -end events were read, a text or reasoning part is added only
\* by the step that reads an -end event, and what is left in an
\* accumulator at the end of the log is in no message.
C40_PartOnlyOnEnd ==
  /\ [](Cardinality(TextPartsOut) <= Cardinality(EndsRead))
  /\ [][ Cardinality(TextPartsOut') > Cardinality(TextPartsOut)
         => /\ ~returned /\ cursor <= Len(events)
            /\ events[cursor].eventFamily \in {"text", "reasoning"}
            /\ EndsWith(events[cursor].eventType, "-end")
            /\ Cardinality(TextPartsOut') = Cardinality(TextPartsOut) + 1 ]_vars
  /\ []((returned /\ EndsRead = {}) => TextPartsOut = {})

\* a text with a -start and a -delta and no -end, and a tool call: the
\* transcript has the part of the tool call only, the text read is left in
\* the accumulator
C40_Witness ==
  /\ returned
  /\ Len(events) = 3
  /\ events[1].eventType = "text-start"
  /\ events[2].eventType = "text-delta"
  /\ events[3].eventFamily = "tool-input"
  /\ streamAccumulators["s1"].text = "hi"
  /\ Len(messages) = 1
  /\ Len(messages[1].parts) = 1
  /\ messages[1].parts[1].type = "tool-search"

====
